---- MODULE Spec2Model ----
(***************************************************************************)
(* More-Ordered-Lists: marker grammar, type classifier, numeral codecs,    *)
(* indentation model and the context-tracked list parser.                  *)
(*                                                                         *)
(* A string is a sequence of one-character strings: "iv" is <<"i","v">>.   *)
(* A function that can throw returns [ok |-> FALSE] (Err) instead of a     *)
(* value [ok |-> TRUE, v |-> ...].                                         *)
(***************************************************************************)
EXTENDS Integers, Sequences, FiniteSets, TLC

VARIABLES settings, doc, call

vars == <<settings, doc, call>>

\* ------------------------------------------------------------------------
\* Characters and strings (the JavaScript built-ins the code relies on)
\* ------------------------------------------------------------------------

LowerLetters ==
    <<"a","b","c","d","e","f","g","h","i","j","k","l","m",
      "n","o","p","q","r","s","t","u","v","w","x","y","z">>

UpperLetters ==
    <<"A","B","C","D","E","F","G","H","I","J","K","L","M",
      "N","O","P","Q","R","S","T","U","V","W","X","Y","Z">>

Digits == <<"0","1","2","3","4","5","6","7","8","9">>

Range(s) == { s[i] : i \in DOMAIN s }

IndexOf(seq, c) == CHOOSE i \in DOMAIN seq : seq[i] = c

IsLower(c) == c \in Range(LowerLetters)
IsUpper(c) == c \in Range(UpperLetters)
IsDigit(c) == c \in Range(Digits)

\* \s of the regular expressions, over the characters the model uses
IsWhitespace(c) == c \in {" ", "\t"}

Err == [ok |-> FALSE]
Ok(x) == [ok |-> TRUE, v |-> x]

\* String.prototype.toLowerCase / toUpperCase, one character
ToLowerChar(c) == IF IsUpper(c) THEN LowerLetters[IndexOf(UpperLetters, c)] ELSE c
ToUpperChar(c) == IF IsLower(c) THEN UpperLetters[IndexOf(LowerLetters, c)] ELSE c

ToLowerCase(s) == [i \in DOMAIN s |-> ToLowerChar(s[i])]
ToUpperCase(s) == [i \in DOMAIN s |-> ToUpperChar(s[i])]

\* charCodeAt(0) of one character (UTF-16 code unit)
CharCode(c) ==
    IF IsLower(c) THEN 96 + IndexOf(LowerLetters, c)
    ELSE IF IsUpper(c) THEN 64 + IndexOf(UpperLetters, c)
    ELSE IF IsDigit(c) THEN 47 + IndexOf(Digits, c)
    ELSE CASE c = "\t" -> 9
           [] c = " " -> 32
           [] c = "(" -> 40
           [] c = ")" -> 41
           [] c = "*" -> 42
           [] c = "+" -> 43
           [] c = "-" -> 45
           [] c = "." -> 46

\* String.fromCharCode(96 + k) for k in 1..26
FromLetterIndex(k) == LowerLetters[k]

RECURSIVE Pow(_, _)
Pow(b, e) == IF e = 0 THEN 1 ELSE b * Pow(b, e - 1)

\* char.repeat(n)
Repeat(c, n) == [i \in 1..n |-> c]

\* the longest prefix of s whose characters all satisfy P
RECURSIVE PrefixLen(_, _, _)
PrefixLen(s, P(_), i) ==
    IF i <= Len(s) /\ P(s[i]) THEN PrefixLen(s, P, i + 1) ELSE i - 1

Drop(s, n) == SubSeq(s, n + 1, Len(s))
Take(s, n) == SubSeq(s, 1, n)

\* value of a run of decimal digits
RECURSIVE DigitsValue(_)
DigitsValue(s) ==
    IF s = <<>> THEN 0
    ELSE 10 * DigitsValue(Take(s, Len(s) - 1)) + (IndexOf(Digits, s[Len(s)]) - 1)

\* the number NaN: a value, not an exception
NaN == [ok |-> TRUE, nan |-> TRUE]

IsNaN(r) == "nan" \in DOMAIN r

\* r is a number other than NaN
IsNum(r) == r.ok /\ ~IsNaN(r)

\* parseInt(s): optional sign, then the longest run of digits; NaN without one
ParseInt(s) ==
    LET signed == s # <<>> /\ s[1] \in {"+", "-"}
        body == IF signed THEN Drop(s, 1) ELSE s
        n == PrefixLen(body, IsDigit, 1)
    IN IF n = 0 THEN NaN
       ELSE Ok((IF signed /\ s[1] = "-" THEN -1 ELSE 1) * DigitsValue(Take(body, n)))

\* Number.prototype.toString() of an integer >= 0
RECURSIVE NumToString(_)
NumToString(n) ==
    IF n < 10 THEN <<Digits[n + 1]>>
    ELSE Append(NumToString(n \div 10), Digits[(n % 10) + 1])

\* ------------------------------------------------------------------------
\* types.ts: ListType, ListSeparator, ParsedListLine
\* ------------------------------------------------------------------------

Alphabetical == "alphabetical"
Roman == "roman"
NestedAlphabetical == "nestedAlphabetical"
Numbered == "numbered"
Unordered == "unordered"

ListType == {Alphabetical, Roman, NestedAlphabetical, Numbered, Unordered}

Dot == "."
Parenthesis == ")"
Parentheses == "()"

ListSeparator == {Dot, Parenthesis, Parentheses}

ParsedListLine(type, indentation, marker, separator, content) ==
    [type |-> type, indentation |-> indentation, marker |-> marker,
     separator |-> separator, content |-> content]

getLineText(line) ==
    IF line.separator = Parentheses
    THEN line.indentation \o <<"(">> \o line.marker \o <<")">> \o line.content
    ELSE line.indentation \o line.marker \o <<line.separator>> \o line.content

\* the number of spaces of s from position i on
spacesFrom(s, i) == PrefixLen(Drop(s, i - 1), LAMBDA c : c = " ", 1)

RECURSIVE levelFrom(_, _, _)
levelFrom(indentation, i, level) ==
    IF i > Len(indentation) THEN level
    ELSE IF indentation[i] = "\t" THEN levelFrom(indentation, i + 1, level + 1)
    ELSE IF indentation[i] = " "
         THEN LET spaces == spacesFrom(indentation, i)
              IN levelFrom(indentation, i + spaces, level + (spaces \div 4))
    ELSE levelFrom(indentation, i + 1, level)

\* variant with a seeded fault: all spaces are counted together, not run by run
getIndentationLevel_allSpaces(indentation) ==
    Cardinality({ i \in DOMAIN indentation : indentation[i] = "\t" })
      + (Cardinality({ i \in DOMAIN indentation : indentation[i] = " " }) \div 4)

getIndentationLevel(indentation) == levelFrom(indentation, 1, 0)

increaseIndentationLevel(indentation) == <<"\t">> \o indentation

RECURSIVE trailingSpacesOf(_)
trailingSpacesOf(s) ==
    IF s # <<>> /\ s[Len(s)] = " " THEN 1 + trailingSpacesOf(Take(s, Len(s) - 1)) ELSE 0

\* Err: the method throws; Ok(x): it returns, and the line's indentation is then x
decreaseIndentationLevel(indentation) ==
    IF indentation = <<>> THEN Err
    ELSE
      LET trailingSpaces == trailingSpacesOf(indentation)
          incompleteSpaces == trailingSpaces % 4
          result == Take(indentation, Len(indentation) - incompleteSpaces)
      IN IF result # <<>> /\ result[Len(result)] = "\t"
         THEN Ok(Take(result, Len(result) - 1) \o Repeat(" ", incompleteSpaces))
         ELSE IF trailingSpaces >= 4
         THEN Ok(Take(result, Len(result) - 4) \o Repeat(" ", incompleteSpaces))
         ELSE Ok(indentation)  \* `return ''`: the value is dropped, the field is kept

getCaseStyle(marker) ==
    IF marker = ToUpperCase(marker) THEN "upper"
    ELSE IF marker = ToLowerCase(marker) THEN "lower"
    ELSE "null"

applyCaseStyle(own, marker) ==
    IF own = ToUpperCase(own) THEN ToUpperCase(marker)
    ELSE IF own = ToLowerCase(own) THEN ToLowerCase(marker)
    ELSE marker

\* ------------------------------------------------------------------------
\* Numeral codecs: decoding (ParsedListLine.getValue)
\* ------------------------------------------------------------------------

\* every character of the lower-cased marker equals the first one
allSameLetter(lowerMarker) == \A i \in 2..Len(lowerMarker) : lowerMarker[i] = lowerMarker[1]

RECURSIVE base26From(_, _, _)
base26From(lowerMarker, i, value) ==
    IF i > Len(lowerMarker) THEN (IF value = 0 THEN Err ELSE Ok(value))
    ELSE LET charCode == CharCode(lowerMarker[i]) - 96
             power == Len(lowerMarker) - i
         IN IF charCode < 1 \/ charCode > 26 THEN Err
            ELSE base26From(lowerMarker, i + 1, value + charCode * Pow(26, power))

\* variant with a seeded fault: the marker is not lower-cased before decoding
calculateBijectiveBase26Value_caseSensitive(marker) == base26From(marker, 1, 0)

calculateBijectiveBase26Value(marker) == base26From(ToLowerCase(marker), 1, 0)

\* variant with a seeded fault: mixed letters fall back to the bijective value instead of failing
calculateRepeatedLettersValue_fallback(marker) ==
    LET lowerMarker == ToLowerCase(marker)
        charCode == CharCode(lowerMarker[1]) - 96
        baseValue == 26 * (Len(lowerMarker) - 1)
    IN IF ~allSameLetter(lowerMarker) THEN base26From(lowerMarker, 1, 0)
       ELSE IF charCode < 1 \/ charCode > 26 THEN Err
       ELSE Ok(baseValue + charCode)

calculateRepeatedLettersValue(marker) ==
    LET lowerMarker == ToLowerCase(marker)
        charCode == CharCode(lowerMarker[1]) - 96
        baseValue == 26 * (Len(lowerMarker) - 1)
    IN IF ~allSameLetter(lowerMarker) THEN Err
       ELSE IF charCode < 1 \/ charCode > 26 THEN Err
       ELSE Ok(baseValue + charCode)

calculateAlphabeticalValue(type, marker, useRepeatedLettersMode) ==
    LET useRepeatedMode == /\ useRepeatedLettersMode
                           /\ type = NestedAlphabetical
                           /\ Len(marker) > 1
    IN IF useRepeatedMode THEN calculateRepeatedLettersValue(marker)
       ELSE calculateBijectiveBase26Value(marker)

\* romanMap[c], 0 for a character that is not a key of the map
romanMap(c) ==
    CASE c = "i" -> 1
      [] c = "v" -> 5
      [] c = "x" -> 10
      [] c = "l" -> 50
      [] c = "c" -> 100
      [] c = "d" -> 500
      [] c = "m" -> 1000
      [] OTHER -> 0

RECURSIVE romanFrom(_, _, _, _)
romanFrom(roman, i, value, prevValue) ==
    IF i < 1 THEN (IF value = 0 THEN Err ELSE Ok(value))
    ELSE LET currentValue == romanMap(roman[i])
         IN IF currentValue = 0 THEN Err
            ELSE romanFrom(roman, i - 1,
                           IF currentValue < prevValue THEN value - currentValue
                                                       ELSE value + currentValue,
                           currentValue)

calculateRomanValue(marker) ==
    LET roman == ToLowerCase(marker) IN romanFrom(roman, Len(roman), 0, 0)

getValue(type, marker, useRepeatedLettersMode) ==
    CASE type \in {Alphabetical, NestedAlphabetical} ->
            calculateAlphabeticalValue(type, marker, useRepeatedLettersMode)
      [] type = Roman -> calculateRomanValue(marker)
      [] type = Numbered -> ParseInt(marker)
      [] OTHER -> Err

\* ------------------------------------------------------------------------
\* Numeral codecs: encoding (the marker generators)
\* ------------------------------------------------------------------------

RECURSIVE standardAlphaFrom(_, _)
standardAlphaFrom(remaining, result) ==
    IF remaining > 0
    THEN LET r == remaining - 1
             charCode == (r % 26) + 1
         IN standardAlphaFrom(r \div 26, <<FromLetterIndex(charCode)>> \o result)
    ELSE result

\* variant with a seeded fault: positional conversion, the decrement of the bijective reduction is dropped
RECURSIVE positionalAlphaFrom(_, _)
positionalAlphaFrom(remaining, result) ==
    IF remaining > 0
    THEN positionalAlphaFrom(remaining \div 26,
                             <<FromLetterIndex((remaining % 26) + 1)>> \o result)
    ELSE result

generateStandardAlphabeticalMarker_positional(value) ==
    IF value < 1 THEN Err ELSE Ok(positionalAlphaFrom(value, <<>>))

generateStandardAlphabeticalMarker(value) ==
    IF value < 1 THEN Err ELSE Ok(standardAlphaFrom(value, <<>>))

\* the length limit of the repeated-letters generator
maxLength == 10

RECURSIVE repeatedLengthFrom(_, _, _)
repeatedLengthFrom(value, baseValue, length) ==
    IF length > maxLength THEN Ok([length |-> length, baseValue |-> baseValue])
    ELSE IF value <= baseValue + 26 THEN Ok([length |-> length, baseValue |-> baseValue])
    ELSE IF length = maxLength THEN Err
    ELSE repeatedLengthFrom(value, baseValue + 26, length + 1)

\* variant with a seeded fault: no limit on the length of the marker
generateRepeatedLettersMarker_unbounded(value) ==
    IF value < 1 THEN Err
    ELSE Ok(Repeat(FromLetterIndex(((value - 1) % 26) + 1), ((value - 1) \div 26) + 1))

generateRepeatedLettersMarker(value) ==
    IF value < 1 THEN Err
    ELSE LET found == repeatedLengthFrom(value, 0, 1)
         IN IF ~found.ok THEN Err
            ELSE Ok(Repeat(FromLetterIndex(value - found.v.baseValue), found.v.length))

generateAlphabeticalMarker(value, nestedAlphabeticalMode) ==
    IF value < 1 THEN Err
    ELSE IF nestedAlphabeticalMode = "repeated" THEN generateRepeatedLettersMarker(value)
    ELSE generateStandardAlphabeticalMarker(value)

romanNumeralMap ==
    << <<1000, <<"m">> >>, <<900, <<"c","m">> >>, <<500, <<"d">> >>,
       <<400, <<"c","d">> >>, <<100, <<"c">> >>, <<90, <<"x","c">> >>,
       <<50, <<"l">> >>, <<40, <<"x","l">> >>, <<10, <<"x">> >>,
       <<9, <<"i","x">> >>, <<5, <<"v">> >>, <<4, <<"i","v">> >>, <<1, <<"i">> >> >>

RECURSIVE romanMarkerFrom(_, _, _)
romanMarkerFrom(k, remainingValue, romanNumeral) ==
    IF k > Len(romanNumeralMap) THEN romanNumeral
    ELSE IF remainingValue >= romanNumeralMap[k][1]
         THEN romanMarkerFrom(k, remainingValue - romanNumeralMap[k][1],
                              romanNumeral \o romanNumeralMap[k][2])
    ELSE romanMarkerFrom(k + 1, remainingValue, romanNumeral)

generateRomanMarker(value) ==
    IF value < 1 THEN Err ELSE Ok(romanMarkerFrom(1, value, <<>>))

\* ------------------------------------------------------------------------
\* settings/types.ts: MoreOrderedListsSettings
\* ------------------------------------------------------------------------

MoreOrderedListsSettings ==
    [enableAlphabeticalLists : BOOLEAN,
     enableRomanLists : BOOLEAN,
     nestedAlphabeticalMode : {"disabled", "bijective", "repeated"},
     caseStyle : {"upper", "lower", "both", "none"},
     enableParentheses : BOOLEAN,
     enableJuraOrdering : BOOLEAN]

DEFAULT_SETTINGS ==
    [enableAlphabeticalLists |-> TRUE,
     enableRomanLists |-> TRUE,
     nestedAlphabeticalMode |-> "bijective",
     caseStyle |-> "both",
     enableParentheses |-> TRUE,
     enableJuraOrdering |-> FALSE]

hasLowercase(st) == st.caseStyle \in {"lower", "both"}
hasUppercase(st) == st.caseStyle \in {"upper", "both"}

\* ------------------------------------------------------------------------
\* parser.ts: marker grammar and type classifier
\* ------------------------------------------------------------------------

\* null
Null == [type |-> "null"]

\* the strings of one digit group of the Roman pattern, e.g. (ix|iv|v?i{0,3})
romanGroup(one, five, ten) ==
    { <<one, ten>>, <<one, five>> } \cup
    { f \o Repeat(one, n) : f \in { <<>>, <<five>> }, n \in 0..3 }

\* /^m{0,3}(cm|cd|d?c{0,3})(xc|xl|l?x{0,3})(ix|iv|v?i{0,3})$/.test(roman)
validRomanPattern(roman) ==
    \E i \in 0..Len(roman) : \E j \in i..Len(roman) : \E k \in j..Len(roman) :
        /\ SubSeq(roman, 1, i) \in { Repeat("m", n) : n \in 0..3 }
        /\ SubSeq(roman, i + 1, j) \in romanGroup("c", "d", "m")
        /\ SubSeq(roman, j + 1, k) \in romanGroup("x", "l", "c")
        /\ SubSeq(roman, k + 1, Len(roman)) \in romanGroup("i", "v", "x")

\* variant with a seeded fault: only the character check, the structural pattern is not applied
isValidRomanNumeral_charsOnly(marker) ==
    LET roman == ToLowerCase(marker)
    IN /\ roman # <<>>
       /\ \A i \in DOMAIN roman : romanMap(roman[i]) # 0

isValidRomanNumeral(marker) ==
    LET roman == ToLowerCase(marker)
    IN /\ roman # <<>>
       /\ \A i \in DOMAIN roman : romanMap(roman[i]) # 0
       /\ validRomanPattern(roman)

\* variant with a seeded fault: the single-letter rule is tried before the Roman rule
determineIntrinsicListType_alphaFirst(st, marker) ==
    IF marker \in { <<"*">>, <<"-">>, <<"+">> } THEN Unordered
    ELSE IF ~IsNaN(ParseInt(marker)) THEN Numbered
    ELSE IF Len(marker) = 1 /\ st.enableAlphabeticalLists THEN Alphabetical
    ELSE IF isValidRomanNumeral(marker) /\ st.enableRomanLists THEN Roman
    ELSE IF Len(marker) > 1 /\ st.nestedAlphabeticalMode # "disabled" THEN NestedAlphabetical
    ELSE "null"

\* variant with a seeded fault: the bullet glyphs are not recognised as Unordered
determineIntrinsicListType_noBullets(st, marker) ==
    IF ~IsNaN(ParseInt(marker)) THEN Numbered
    ELSE IF isValidRomanNumeral(marker) /\ st.enableRomanLists THEN Roman
    ELSE IF Len(marker) = 1 /\ st.enableAlphabeticalLists THEN Alphabetical
    ELSE IF Len(marker) > 1 /\ st.nestedAlphabeticalMode # "disabled" THEN NestedAlphabetical
    ELSE "null"

determineIntrinsicListType(st, marker) ==
    IF marker \in { <<"*">>, <<"-">>, <<"+">> } THEN Unordered
    ELSE IF ~IsNaN(ParseInt(marker)) THEN Numbered
    ELSE IF isValidRomanNumeral(marker) /\ st.enableRomanLists THEN Roman
    ELSE IF Len(marker) = 1 /\ st.enableAlphabeticalLists THEN Alphabetical
    ELSE IF Len(marker) > 1 /\ st.nestedAlphabeticalMode # "disabled" THEN NestedAlphabetical
    ELSE "null"

determineListType(st, marker, context) ==
    LET decide(intrinsicType) ==
            IF context = Null THEN intrinsicType
            ELSE IF intrinsicType = context.type THEN intrinsicType
            ELSE IF /\ intrinsicType = Roman
                    /\ Len(marker) = Len(context.marker)
                    /\ context.type \in {Alphabetical, NestedAlphabetical}
                 THEN context.type
            ELSE IF context.type = Alphabetical /\ intrinsicType = NestedAlphabetical
                 THEN NestedAlphabetical
            ELSE "null"
    IN decide(determineIntrinsicListType(st, marker))

createResult(st, indentation, marker, separator, content, context) ==
    LET result(listType) ==
            IF listType = "null" THEN Null
            ELSE ParsedListLine(listType, indentation, marker, separator, content)
    IN result(determineListType(st, marker, context))

\* a character of the class [A-Za-z] as restricted by the case style
isAlphabetChar(st, c) == (hasUppercase(st) /\ IsUpper(c)) \/ (hasLowercase(st) /\ IsLower(c))

\* the length of the marker token the pattern of buildMarkerPattern matches at the
\* start of s when a separator must follow it; 0 when it matches none
markerMatch(st, s) ==
    LET needMulti == st.nestedAlphabeticalMode # "disabled" \/ st.enableRomanLists
        needSingle == st.enableAlphabeticalLists \/ st.enableRomanLists
        match(letters, digits) ==
            IF letters >= 2 /\ needMulti THEN letters
            ELSE IF letters = 1 /\ needSingle THEN 1
            ELSE IF letters = 0 THEN digits
            ELSE 0
    IN match(PrefixLen(s, LAMBDA c : isAlphabetChar(st, c), 1), PrefixLen(s, IsDigit, 1))

\* the characters of the class built by buildSeparatorPattern
separatorChars(st) == IF st.enableParentheses THEN {".", ")"} ELSE {"."}

parseLine(st, lineText, context) ==
    LET \* m, pm: the marker token of the standard and of the parenthesised form
        match(indentation, rest, m, pm) ==
            IF Len(rest) >= 2 /\ rest[1] \in {"*", "-", "+"} /\ rest[2] = " "
            THEN <<indentation, <<rest[1]>>, Dot, Drop(rest, 2)>>
            ELSE IF /\ m > 0
                    /\ Len(rest) >= m + 2
                    /\ rest[m + 1] \in separatorChars(st)
                    /\ rest[m + 2] = " "
            THEN <<indentation, Take(rest, m), rest[m + 1], Drop(rest, m + 2)>>
            ELSE IF /\ st.enableParentheses
                    /\ Len(rest) >= 1 /\ rest[1] = "("
                    /\ pm > 0
                    /\ Len(rest) >= pm + 3
                    /\ rest[pm + 2] = ")"
                    /\ rest[pm + 3] = " "
            THEN <<indentation, SubSeq(rest, 2, pm + 1), Parentheses, Drop(rest, pm + 3)>>
            ELSE <<>>
        split(w) == match(Take(lineText, w), Drop(lineText, w),
                          markerMatch(st, Drop(lineText, w)),
                          markerMatch(st, Drop(lineText, w + 1)))
        result(groups) ==
            IF groups = <<>> THEN Null
            ELSE createResult(st, groups[1], groups[2], groups[3], groups[4], context)
    IN result(split(PrefixLen(lineText, IsWhitespace, 1)))

\* Parser.getIndentationLevel: the level of the leading whitespace of a line
lineIndentationLevel(lineText) ==
    getIndentationLevel(Take(lineText, PrefixLen(lineText, IsWhitespace, 1)))

\* ------------------------------------------------------------------------
\* parser.ts: the list context parser
\* ------------------------------------------------------------------------

Min(a, b) == IF a < b THEN a ELSE b

\* doc.line(lineNumber).text; the mock document of parseLines gives '' past the end
lineTextOf(d, lineNumber) == IF lineNumber \in DOMAIN d THEN d[lineNumber] ELSE <<>>

\* variant with a seeded fault: the loop of parseList without its two indentation
\* guards (the jump check and the check for a missing parent)
RECURSIVE parseListFrom_noIndentationGuards(_, _, _, _, _, _)
parseListFrom_noIndentationGuards(st, d, lineNumber, end, contextStack, parsedLines) ==
    LET \* the line is accepted or the loop breaks
        step(indentationLevel, stack, current, context, parent) ==
            IF current = Null THEN parsedLines
            ELSE IF /\ \/ current.type = Unordered
                       \/ (current.type = Numbered /\ current.separator # Parentheses)
                    /\ (parent = Null \/ indentationLevel = 0)
                 THEN parsedLines
            ELSE parseListFrom_noIndentationGuards(st, d, lineNumber + 1, end,
                      IF Len(stack) <= indentationLevel
                      THEN Append(stack, current)
                      ELSE [stack EXCEPT ![indentationLevel + 1] = current],
                      Append(parsedLines, <<lineNumber, current>>))
        \* context: the previous line at the same level; parent: one level up
        withContext(lineText, indentationLevel, stack, context) ==
            step(indentationLevel, stack, parseLine(st, lineText, context), context,
                 IF indentationLevel > 0 /\ Len(stack) >= indentationLevel
                 THEN stack[indentationLevel] ELSE Null)
        \* stack: the context stack popped down to the level of the line
        withStack(lineText, indentationLevel, stack) ==
            withContext(lineText, indentationLevel, stack,
                        IF Len(stack) > indentationLevel THEN stack[indentationLevel + 1]
                                                         ELSE Null)
        atLevel(lineText, indentationLevel) ==
            withStack(lineText, indentationLevel,
                      Take(contextStack, Min(Len(contextStack), indentationLevel + 1)))
        atLine(lineText) == atLevel(lineText, lineIndentationLevel(lineText))
    IN IF lineNumber > end THEN parsedLines
       ELSE atLine(lineTextOf(d, lineNumber))

\* the loop of parseList from lineNumber on, with the context stack and the lines
\* parsed so far; a parsed line is the pair <<lineNumber, ParsedListLine>>
RECURSIVE parseListFrom(_, _, _, _, _, _)
parseListFrom(st, d, lineNumber, end, contextStack, parsedLines) ==
    LET \* the line is accepted or the loop breaks
        step(indentationLevel, stack, current, context, parent) ==
            IF Len(contextStack) < indentationLevel THEN parsedLines
            ELSE IF current = Null THEN parsedLines
            ELSE IF context = Null /\ parent = Null /\ indentationLevel > 0 THEN parsedLines
            ELSE IF /\ \/ current.type = Unordered
                       \/ (current.type = Numbered /\ current.separator # Parentheses)
                    /\ (parent = Null \/ indentationLevel = 0)
                 THEN parsedLines
            ELSE parseListFrom(st, d, lineNumber + 1, end,
                      IF Len(stack) = indentationLevel
                      THEN Append(stack, current)
                      ELSE [stack EXCEPT ![indentationLevel + 1] = current],
                      Append(parsedLines, <<lineNumber, current>>))
        \* context: the previous line at the same level; parent: one level up
        withContext(lineText, indentationLevel, stack, context) ==
            step(indentationLevel, stack, parseLine(st, lineText, context), context,
                 IF indentationLevel > 0 /\ Len(stack) >= indentationLevel
                 THEN stack[indentationLevel] ELSE Null)
        \* stack: the context stack popped down to the level of the line
        withStack(lineText, indentationLevel, stack) ==
            withContext(lineText, indentationLevel, stack,
                        IF Len(stack) > indentationLevel THEN stack[indentationLevel + 1]
                                                         ELSE Null)
        atLevel(lineText, indentationLevel) ==
            withStack(lineText, indentationLevel,
                      Take(contextStack, Min(Len(contextStack), indentationLevel + 1)))
        atLine(lineText) == atLevel(lineText, lineIndentationLevel(lineText))
    IN IF lineNumber > end THEN parsedLines
       ELSE atLine(lineTextOf(d, lineNumber))

parseList(st, d, start, end) == parseListFrom(st, d, start, end, <<>>, <<>>)

\* Math.max(...parsedList.map(([lineNumber]) => lineNumber))
maxLineNumber(parsedList) ==
    CHOOSE n \in { parsedList[i][1] : i \in DOMAIN parsedList } :
        \A i \in DOMAIN parsedList : parsedList[i][1] <= n

\* variant with a seeded fault: the scan resumes after the first line of the list
\* found instead of after its last line
RECURSIVE parseListsFrom_resumeAfterFirst(_, _, _, _, _)
parseListsFrom_resumeAfterFirst(st, d, currentLine, end, parsedLists) ==
    LET found(parsedList) ==
            IF Len(parsedList) > 0
            THEN parseListsFrom_resumeAfterFirst(st, d, parsedList[1][1] + 1, end, Append(parsedLists, parsedList))
            ELSE parseListsFrom_resumeAfterFirst(st, d, currentLine + 1, end, parsedLists)
    IN IF currentLine > end THEN parsedLists
       ELSE found(parseList(st, d, currentLine, end))

\* variant with a seeded fault: the scan skips the line that ended the list found
RECURSIVE parseListsFrom_skipBreakingLine(_, _, _, _, _)
parseListsFrom_skipBreakingLine(st, d, currentLine, end, parsedLists) ==
    LET found(parsedList) ==
            IF Len(parsedList) > 0
            THEN parseListsFrom_skipBreakingLine(st, d, maxLineNumber(parsedList) + 2, end,
                                                 Append(parsedLists, parsedList))
            ELSE parseListsFrom_skipBreakingLine(st, d, currentLine + 1, end, parsedLists)
    IN IF currentLine > end THEN parsedLists
       ELSE found(parseList(st, d, currentLine, end))

\* the loop of parseLists from currentLine on, with the lists found so far
RECURSIVE parseListsFrom(_, _, _, _, _)
parseListsFrom(st, d, currentLine, end, parsedLists) ==
    LET found(parsedList) ==
            IF Len(parsedList) > 0
            THEN parseListsFrom(st, d, maxLineNumber(parsedList) + 1, end, Append(parsedLists, parsedList))
            ELSE parseListsFrom(st, d, currentLine + 1, end, parsedLists)
    IN IF currentLine > end THEN parsedLists
       ELSE found(parseList(st, d, currentLine, end))

parseLists(st, d, start, end) == parseListsFrom(st, d, start, end, <<>>)

parseLines(st, lines) == parseLists(st, lines, 1, Len(lines))

\* variant with a seeded fault: no backward scan, the parse starts at the target line
findPotentialListStart_noScan(st, d, targetLine, currentLine) == targetLine

RECURSIVE findPotentialListStart(_, _, _, _)
findPotentialListStart(st, d, targetLine, currentLine) ==
    IF currentLine < 1 THEN 1
    ELSE IF parseLine(st, lineTextOf(d, currentLine), Null) = Null
         THEN (IF currentLine = targetLine THEN targetLine ELSE currentLine + 1)
    ELSE findPotentialListStart(st, d, targetLine, currentLine - 1)

findListForLine(st, d, targetLine) ==
    LET hits(allLists) == { i \in DOMAIN allLists :
                              \E k \in DOMAIN allLists[i] : allLists[i][k][1] = targetLine }
        find(allLists) ==
            IF hits(allLists) = {} THEN <<>>
            ELSE allLists[CHOOSE i \in hits(allLists) : \A j \in hits(allLists) : i <= j]
    IN find(parseLists(st, d, findPotentialListStart(st, d, targetLine, targetLine), Len(d)))

\* ------------------------------------------------------------------------
\* ReadingModePostProcessor: the nesting of a parsed list
\* ------------------------------------------------------------------------

\* createListElement: the tag of the list element made for a line
createListElement(parsed) == IF parsed.type = Unordered THEN "ul" ELSE "ol"

\* the forEach of createNestedListStructure from index on; a stack entry holds the
\* list element of its level and the index of the item last added to it
RECURSIVE createNestedFrom(_, _, _)
createNestedFrom(listLines, index, contextStack) ==
    LET add(parsed, targetLevel, stack) ==
            IF Len(contextStack) < targetLevel THEN Err
            ELSE IF Len(stack) = targetLevel
                 THEN createNestedFrom(listLines, index + 1,
                          Append(stack, [element |-> createListElement(parsed),
                                         lastItem |-> index]))
                 ELSE createNestedFrom(listLines, index + 1,
                          [stack EXCEPT ![targetLevel + 1].lastItem = index])
        atLevel(parsed, targetLevel) ==
            add(parsed, targetLevel,
                Take(contextStack, Min(Len(contextStack), targetLevel + 1)))
    IN IF index > Len(listLines)
       THEN Ok(IF contextStack = <<>> THEN "null" ELSE contextStack[1].element)
       ELSE atLevel(listLines[index], getIndentationLevel(listLines[index].indentation))

createNestedListStructure(listLines) == createNestedFrom(listLines, 1, <<>>)

\* ------------------------------------------------------------------------
\* Bounds and input universes
\* ------------------------------------------------------------------------

\* all strings over the characters A of length at most n
StringsUpTo(A, n) == UNION { [1..k -> A] : k \in 0..n }

MaxMarkerLen == 3
MaxRomanLen == 4
MaxAlphaValue == 800
MaxNumber == 120
MaxIndentLen == 5

\* the largest value the Roman validator accepts
MaxRomanValue == 3999

MarkerChars == {"a", "b", "z", "Z", "i", "0", "1", "*"}
Markers == StringsUpTo(MarkerChars, MaxMarkerLen)

RomanChars == {"i", "v", "x", "c", "m", "I", "a"}

\* the language of the Roman pattern, the empty string included
RomanPatternStrings ==
    { Repeat("m", n) \o h \o t \o o :
        n \in 0..3, h \in romanGroup("c", "d", "m"),
        t \in romanGroup("x", "l", "c"), o \in romanGroup("i", "v", "x") }

RomanCandidates ==
    StringsUpTo(RomanChars, MaxRomanLen) \cup RomanPatternStrings
      \cup { ToUpperCase(r) : r \in { <<"i","v">>, <<"m","c","m","x","c","i","v">> } }

\* ------------------------------------------------------------------------
\* SpecCodec: the numeral codecs and the Roman validator on drawn inputs.
\* Init draws one pending call; the action of that operation performs it.
\* ------------------------------------------------------------------------

Pending(c) == ~c.done
Done(c, op) == c.op = op /\ c.done

CodecCalls ==
    { [op |-> "getValue", type |-> type, marker |-> marker, repeated |-> r, done |-> FALSE] :
        type \in ListType, marker \in Markers, r \in BOOLEAN }
    \cup
    { [op |-> "getValue", type |-> Roman, marker |-> marker, repeated |-> FALSE,
       done |-> FALSE] : marker \in RomanCandidates }
    \cup
    { [op |-> "isValidRomanNumeral", marker |-> marker, done |-> FALSE] :
        marker \in RomanCandidates }
    \cup
    { [op |-> "generateRomanMarker", value |-> value, done |-> FALSE] :
        value \in 0..MaxRomanValue + 1 }
    \cup
    { [op |-> "generateAlphabeticalMarker", value |-> value, mode |-> mode, done |-> FALSE] :
        value \in 0..MaxAlphaValue, mode \in {"bijective", "repeated"} }
    \cup
    { [op |-> "generateNumberedMarker", value |-> value, done |-> FALSE] :
        value \in 0..MaxNumber }

InitCodec ==
    /\ settings = DEFAULT_SETTINGS
    /\ doc = <<>>
    /\ call \in CodecCalls

\* the call is performed: its result is recorded
Return(result) == call' = [f \in DOMAIN call \cup {"result"} |->
                            IF f = "result" THEN result
                            ELSE IF f = "done" THEN TRUE
                            ELSE call[f]]

GetValue ==
    /\ call.op = "getValue" /\ Pending(call)
    /\ Return(getValue(call.type, call.marker, call.repeated))
    /\ UNCHANGED <<settings, doc>>

IsValidRomanNumeral ==
    /\ call.op = "isValidRomanNumeral" /\ Pending(call)
    /\ Return(isValidRomanNumeral(call.marker))
    /\ UNCHANGED <<settings, doc>>

GenerateRomanMarker ==
    /\ call.op = "generateRomanMarker" /\ Pending(call)
    /\ Return(generateRomanMarker(call.value))
    /\ UNCHANGED <<settings, doc>>

GenerateAlphabeticalMarker ==
    /\ call.op = "generateAlphabeticalMarker" /\ Pending(call)
    /\ Return(generateAlphabeticalMarker(call.value, call.mode))
    /\ UNCHANGED <<settings, doc>>

\* the Numbered generator: expectedValue.toString()
GenerateNumberedMarker ==
    /\ call.op = "generateNumberedMarker" /\ Pending(call)
    /\ Return(Ok(NumToString(call.value)))
    /\ UNCHANGED <<settings, doc>>

NextCodec ==
    \/ GetValue
    \/ IsValidRomanNumeral
    \/ GenerateRomanMarker
    \/ GenerateAlphabeticalMarker
    \/ GenerateNumberedMarker

SpecCodec == InitCodec /\ [][NextCodec]_vars

\* ------------------------------------------------------------------------
\* Claims on the numeral codecs (SpecCodec)
\* ------------------------------------------------------------------------

IsLetter(c) == IsLower(c) \/ IsUpper(c)

\* position of a letter in the alphabet, 1..26, whatever its case
LetterPosition(c) == IndexOf(LowerLetters, ToLowerChar(c))

AllLetters(m) == m # <<>> /\ \A i \in DOMAIN m : IsLetter(m[i])
AllDigits(m) == m # <<>> /\ \A i \in DOMAIN m : IsDigit(m[i])

RECURSIVE SumOver(_, _)
SumOver(f, n) == IF n = 0 THEN 0 ELSE f[n] + SumOver(f, n - 1)

\* sum of letterValue * 26^i, i the 0-indexed position from the right
BijectiveValue(m) ==
    SumOver([k \in 1..Len(m) |-> LetterPosition(m[k]) * Pow(26, Len(m) - k)], Len(m))

\* a call that decodes with the bijective base-26 decoder
BijectiveCall ==
    /\ Done(call, "getValue")
    /\ \/ call.type = Alphabetical
       \/ call.type = NestedAlphabetical /\ ~call.repeated

\* C7: alphabetical decoding is bijective base-26, sum of letterValue * 26^i with
\* a..z = 1..26 whatever the case (a=1, z=26, aa=27, az=52, ba=53), and decoding a
\* string with a character outside a-z fails.
C7_BijectiveDecode ==
    BijectiveCall =>
        /\ AllLetters(call.marker) => call.result = Ok(BijectiveValue(call.marker))
        /\ (\E i \in DOMAIN call.marker : ~IsLetter(call.marker[i])) => ~call.result.ok
        /\ call.marker = <<"a">> => call.result = Ok(1)
        /\ call.marker = <<"z">> => call.result = Ok(26)
        /\ call.marker = <<"a","a">> => call.result = Ok(27)
        /\ call.marker = <<"a","z">> => call.result = Ok(52)
        /\ call.marker = <<"b","a">> => call.result = Ok(53)
        /\ call.marker = <<"Z">> => call.result = Ok(26)

C7_Witness ==
    /\ BijectiveCall
    /\ call.marker = <<"b","a">>
    /\ call.result = Ok(53)

\* a call that decodes a multi-letter nested marker in repeated-letters mode
RepeatedCall ==
    /\ Done(call, "getValue")
    /\ call.type = NestedAlphabetical
    /\ call.repeated
    /\ Len(call.marker) > 1

CanonicalRomanNumerals == { generateRomanMarker(v).v : v \in 1..MaxRomanValue }

\* C9: the Roman validator accepts a marker exactly when, ignoring case, it is the
\* canonical numeral of an integer in 1..3999; it rejects the empty string, iiii
\* and vx; iv, ix and mcmxciv are accepted and decode to 4, 9 and 1994.
C9_RomanValidator ==
    /\ Done(call, "isValidRomanNumeral") =>
          /\ call.result = (ToLowerCase(call.marker) \in CanonicalRomanNumerals)
          /\ call.marker \in { <<>>, <<"i","i","i","i">>, <<"v","x">> } => ~call.result
          /\ call.marker \in { <<"i","v">>, <<"i","x">>,
                                <<"m","c","m","x","c","i","v">> } => call.result
    /\ (Done(call, "getValue") /\ call.type = Roman) =>
          /\ call.marker = <<"i","v">> => call.result = Ok(4)
          /\ call.marker = <<"i","x">> => call.result = Ok(9)
          /\ call.marker = <<"m","c","m","x","c","i","v">> => call.result = Ok(1994)

C9_Witness ==
    /\ Done(call, "isValidRomanNumeral")
    /\ call.marker = <<"m","c","m","x","c","i","v">>
    /\ call.result

\* decode(encode(v)) = v for the three systems
DecodeOfEncode ==
    /\ (Done(call, "generateRomanMarker") /\ call.value \in 1..MaxRomanValue) =>
          /\ call.result.ok
          /\ getValue(Roman, call.result.v, FALSE) = Ok(call.value)
    /\ (Done(call, "generateAlphabeticalMarker") /\ call.mode = "bijective"
            /\ call.value >= 1) =>
          /\ call.result.ok
          /\ getValue(Alphabetical, call.result.v, FALSE) = Ok(call.value)
    /\ (Done(call, "generateNumberedMarker") /\ call.value >= 1) =>
          getValue(Numbered, call.result.v, FALSE) = Ok(call.value)

\* encode(decode(m)) = m up to letter case, for the letter systems
EncodeOfDecodeLetters ==
    /\ (Done(call, "isValidRomanNumeral") /\ call.result) =>
          LET value == getValue(Roman, call.marker, FALSE)
          IN value.ok /\ generateRomanMarker(value.v) = Ok(ToLowerCase(call.marker))
    /\ (Done(call, "getValue") /\ call.type = Alphabetical /\ AllLetters(call.marker)) =>
          /\ call.result.ok
          /\ generateStandardAlphabeticalMarker(call.result.v)
                = Ok(ToLowerCase(call.marker))

\* a Numbered marker that was decoded
NumberedDecoded ==
    Done(call, "getValue") /\ call.type = Numbered /\ AllDigits(call.marker)

LeadingZero(m) == Len(m) > 1 /\ m[1] = "0"

\* C6 (as claimed): decode(encode(v)) = v for Alphabetical, Roman (1..3999) and
\* Numbered, and encode(decode(m)) equals m up to letter case for every
\* well-formed marker m of the system.
C6_Original ==
    /\ DecodeOfEncode
    /\ EncodeOfDecodeLetters
    /\ NumberedDecoded => NumToString(call.result.v) = call.marker

\* C6 (amended): as claimed, except that for a Numbered marker with leading zeros
\* encode(decode(m)) is the marker without them (equal in value, not in text).
C6_RoundTrip ==
    /\ DecodeOfEncode
    /\ EncodeOfDecodeLetters
    /\ NumberedDecoded =>
          /\ ~LeadingZero(call.marker) => NumToString(call.result.v) = call.marker
          /\ getValue(Numbered, NumToString(call.result.v), FALSE) = call.result

C6_Witness ==
    /\ Done(call, "generateRomanMarker")
    /\ call.value = MaxRomanValue
    /\ getValue(Roman, call.result.v, FALSE) = Ok(MaxRomanValue)

\* sum of the symbol values of a marker made of Roman symbols
SymbolSum(m) == SumOver([k \in 1..Len(m) |-> romanMap(ToLowerChar(m[k]))], Len(m))

AllRomanSymbols(m) ==
    m # <<>> /\ \A i \in DOMAIN m : ToLowerChar(m[i]) \in {"i", "v", "x", "l", "c", "d", "m"}

\* C18: Roman encode and decode both fail above 3999: generating the marker
\* of 4000 or more is an error, and so is decoding a Roman marker whose symbol
\* sum exceeds 3999 (mmmm).
C18_RomanAbove3999Rejected ==
    /\ (Done(call, "generateRomanMarker") /\ call.value > MaxRomanValue) =>
          ~call.result.ok
    /\ (Done(call, "getValue") /\ call.type = Roman /\ AllRomanSymbols(call.marker)
            /\ SymbolSum(call.marker) > MaxRomanValue) =>
          ~call.result.ok

\* a decode of a marker the grammar admits for the type
GrammarDecode ==
    /\ Done(call, "getValue")
    /\ IF call.type = Numbered THEN AllDigits(call.marker) ELSE AllLetters(call.marker)

\* C19: decoding never yields the value 0, in any numbering system, Numbered
\* included (the marker 0).
C19_ZeroNeverDecoded ==
    GrammarDecode => call.result # Ok(0)

\* a repeated-letters encoding of a value from 1 on
RepeatedEncode ==
    /\ Done(call, "generateAlphabeticalMarker")
    /\ call.mode = "repeated"
    /\ call.value >= 1

\* the letter at position ((v-1) mod 26)+1, ceil(v/26) times, decodes to v
RepeatedInverse ==
    /\ call.result
          = Ok(Repeat(LowerLetters[((call.value - 1) % 26) + 1], ((call.value - 1) \div 26) + 1))
    /\ getValue(NestedAlphabetical, call.result.v, TRUE) = Ok(call.value)

Indentations == StringsUpTo({" ", "\t"}, MaxIndentLen)

IndentCalls ==
    { [op |-> op, indentation |-> indentation, done |-> FALSE] :
        op \in {"getIndentationLevel", "increaseIndentationLevel",
                "decreaseIndentationLevel"},
        indentation \in Indentations }

InitIndent ==
    /\ settings = DEFAULT_SETTINGS
    /\ doc = <<>>
    /\ call \in IndentCalls

GetIndentationLevel ==
    /\ call.op = "getIndentationLevel" /\ Pending(call)
    /\ Return(getIndentationLevel(call.indentation))
    /\ UNCHANGED <<settings, doc>>

IncreaseIndentationLevel ==
    /\ call.op = "increaseIndentationLevel" /\ Pending(call)
    /\ Return(Ok(increaseIndentationLevel(call.indentation)))
    /\ UNCHANGED <<settings, doc>>

DecreaseIndentationLevel ==
    /\ call.op = "decreaseIndentationLevel" /\ Pending(call)
    /\ Return(decreaseIndentationLevel(call.indentation))
    /\ UNCHANGED <<settings, doc>>

NextIndent ==
    \/ GetIndentationLevel
    \/ IncreaseIndentationLevel
    \/ DecreaseIndentationLevel

SpecIndent == InitIndent /\ [][NextIndent]_vars

\* the maximal runs of spaces of s, each as <<first, last>>
MaximalSpaceRuns(s) ==
    { r \in (DOMAIN s) \X (DOMAIN s) :
        /\ r[1] <= r[2]
        /\ \A k \in r[1]..r[2] : s[k] = " "
        /\ (r[1] = 1 \/ s[r[1] - 1] # " ")
        /\ (r[2] = Len(s) \/ s[r[2] + 1] # " ") }

RECURSIVE SumOfRuns(_)
SumOfRuns(runs) ==
    IF runs = {} THEN 0
    ELSE LET r == CHOOSE x \in runs : TRUE
         IN ((r[2] - r[1] + 1) \div 4) + SumOfRuns(runs \ {r})

\* tabs plus, for each maximal run of spaces, floor(run length / 4)
LevelByRuns(s) ==
    Cardinality({ i \in DOMAIN s : s[i] = "\t" }) + SumOfRuns(MaximalSpaceRuns(s))

\* C10: the indentation level is the number of tabs plus floor(run length / 4) for
\* each maximal run of spaces: four spaces and one tab both give 1, one to three
\* spaces give 0, five spaces give 1 and keep one space after one level-decrease.
C10_IndentationLevel ==
    /\ Done(call, "getIndentationLevel") =>
          /\ call.result = LevelByRuns(call.indentation)
          /\ call.indentation \in { Repeat(" ", 4), <<"\t">>, Repeat(" ", 5) }
                => call.result = 1
          /\ call.indentation \in { Repeat(" ", n) : n \in 1..3 } => call.result = 0
    /\ (Done(call, "decreaseIndentationLevel") /\ call.indentation = Repeat(" ", 5)) =>
          call.result = Ok(<<" ">>)

C10_Witness ==
    /\ Done(call, "decreaseIndentationLevel")
    /\ call.indentation = Repeat(" ", 5)
    /\ call.result = Ok(<<" ">>)

\* C11: decreaseIndentationLevel on an indentation of level 0 (empty, or one to
\* three spaces) is rejected with an error; it is never accepted as a no-op.
C11_DecreaseAtLevelZeroRejected ==
    (Done(call, "decreaseIndentationLevel") /\ LevelByRuns(call.indentation) = 0) =>
        call.result = Err

\* C30: decreaseIndentationLevel on an indentation of tabs and spaces of level
\* L >= 1 leaves an indentation of level exactly L - 1, also when tabs are mixed
\* with partial groups of spaces (two spaces, a tab, two spaces).
C30_DecreaseLowersLevelByOne ==
    (Done(call, "decreaseIndentationLevel") /\ LevelByRuns(call.indentation) >= 1) =>
        /\ call.result.ok
        /\ getIndentationLevel(call.result.v) = LevelByRuns(call.indentation) - 1

\* ------------------------------------------------------------------------
\* SpecClassify: the type classifier and the line grammar on drawn inputs.
\* A classified marker becomes the sibling context of the next one, as in
\* parseList; a parsed line is rendered with getLineText and parsed again.
\* ------------------------------------------------------------------------

\* every combination of enabled systems under the default grammar options, and
\* every grammar option under the default systems
ClassifySettings ==
    { st \in MoreOrderedListsSettings :
        /\ ~st.enableJuraOrdering
        /\ \/ st.caseStyle = "both" /\ st.enableParentheses
           \/ /\ st.enableAlphabeticalLists /\ st.enableRomanLists
              /\ st.nestedAlphabeticalMode = "bijective" }

\* marker tokens the grammar can produce
ClassifyMarkers ==
    { <<"*">>, <<"-">>, <<"1">>, <<"1","2">>,
      <<"a">>, <<"b">>, <<"c">>, <<"i">>, <<"z">>, <<"C">>,
      <<"a","a">>, <<"a","b">>, <<"i","v">>, <<"i","i">>, <<"c","c">>,
      <<"a","b","c">> }

\* the text of a marker with its separator, as a line shows it
markerText(marker, separator) ==
    IF separator = Parentheses THEN <<"(">> \o marker \o <<")">>
    ELSE marker \o <<separator>>

LineMarkers == { <<"a">>, <<"c">>, <<"B">>, <<"a","a">>, <<"i","v">>, <<"1">> }
LineIndentations == { <<>>, <<"\t">> }
LineContents == { <<>>, <<"x">>, <<" ","x">> }

LineTexts ==
    { ind \o markerText(m, sep) \o <<" ">> \o content :
        ind \in LineIndentations, m \in LineMarkers, sep \in ListSeparator,
        content \in LineContents }
    \cup
    { ind \o <<b, " ">> \o content :
        ind \in LineIndentations, b \in {"*", "-", "+"}, content \in LineContents }
    \cup
    { <<"a", ".", "x">>, <<".", " ", "x">>, <<"a", " ", "x">>, <<"x">>, <<>>,
      <<"i", "V", ".", " ", "x">>, <<"A", "b", ".", " ", "x">> }

\* the sibling contexts a line is parsed with: none, or a line parsed without one
LineContexts(st) ==
    {Null} \cup { parseLine(st, t, Null) : t \in { <<"b", ".", " ", "x">>,
                                                   <<"a", "a", ")", " ", "x">> } }

ClassifyCalls(st) ==
    { [op |-> "determineListType", marker |-> marker, context |-> Null, done |-> FALSE] :
        marker \in ClassifyMarkers }
    \cup
    { [op |-> "parseLine", lineText |-> t, context |-> c, done |-> FALSE] :
        t \in LineTexts, c \in LineContexts(st) }

InitClassify ==
    /\ settings \in ClassifySettings
    /\ doc = <<>>
    /\ call \in ClassifyCalls(settings)

DetermineListType ==
    /\ call.op = "determineListType" /\ Pending(call)
    /\ Return(determineListType(settings, call.marker, call.context))
    /\ UNCHANGED <<settings, doc>>

\* the classified marker is the sibling context of the next marker at its level
SiblingFollows ==
    /\ Done(call, "determineListType")
    /\ call.result # "null"
    /\ \E marker \in ClassifyMarkers :
          call' = [op |-> "determineListType", marker |-> marker,
                   context |-> ParsedListLine(call.result, <<>>, call.marker, Dot, <<>>),
                   done |-> FALSE]
    /\ UNCHANGED <<settings, doc>>

ParseLine ==
    /\ call.op = "parseLine" /\ Pending(call)
    /\ Return(parseLine(settings, call.lineText, call.context))
    /\ UNCHANGED <<settings, doc>>

\* the parsed line is rendered back to text, to be parsed with the same context
GetLineText ==
    /\ Done(call, "parseLine")
    /\ call.result # Null
    /\ "original" \notin DOMAIN call
    /\ call' = [op |-> "parseLine", lineText |-> getLineText(call.result),
                context |-> call.context, original |-> call.result, done |-> FALSE]
    /\ UNCHANGED <<settings, doc>>

NextClassify ==
    \/ DetermineListType
    \/ SiblingFollows
    \/ ParseLine
    \/ GetLineText

SpecClassify == InitClassify /\ [][NextClassify]_vars

\* ------------------------------------------------------------------------
\* Properties of the classifier and the line grammar (SpecClassify)
\* ------------------------------------------------------------------------

Bullets == { <<"*">>, <<"-">>, <<"+">> }
WellFormedRoman(m) == ToLowerCase(m) \in CanonicalRomanNumerals

\* the first matching rule of the documented order
FirstMatchingRule(st, m) ==
    CASE m \in Bullets -> Unordered
      [] m \notin Bullets /\ AllDigits(m) -> Numbered
      [] AllLetters(m) /\ WellFormedRoman(m) /\ st.enableRomanLists -> Roman
      [] AllLetters(m) /\ ~(WellFormedRoman(m) /\ st.enableRomanLists)
            /\ Len(m) = 1 /\ st.enableAlphabeticalLists -> Alphabetical
      [] AllLetters(m) /\ ~(WellFormedRoman(m) /\ st.enableRomanLists)
            /\ Len(m) > 1 /\ st.nestedAlphabeticalMode # "disabled" -> NestedAlphabetical
      [] OTHER -> "null"

\* C3: with no sibling context a marker is classified by the first matching rule
\* in the order bullet glyph, integer, well-formed Roman numeral with Roman
\* enabled, single letter with Alphabetical enabled, several letters with the
\* nested mode not disabled, and is rejected otherwise; c is Roman, not
\* Alphabetical, when both systems are enabled.
C3_IntrinsicOrder ==
    (Done(call, "determineListType") /\ call.context = Null) =>
        /\ call.result = FirstMatchingRule(settings, call.marker)
        /\ (call.marker = <<"c">> /\ settings.enableRomanLists
                /\ settings.enableAlphabeticalLists) => call.result = Roman

C3_Witness ==
    /\ Done(call, "determineListType") /\ call.context = Null
    /\ call.marker = <<"c">>
    /\ settings.enableRomanLists /\ settings.enableAlphabeticalLists
    /\ call.result = Roman

\* the marker has a value under the given system
DecodableUnder(st, type, marker) ==
    LET v == getValue(type, marker, st.nestedAlphabeticalMode = "repeated")
    IN  v.ok /\ IsNum(v)

\* C4: with a sibling context whose type differs from the marker's context-free
\* type, the classifier returns the context's type when the marker is as long as
\* the context's marker and is decodable under the context's system; a marker
\* that meets neither this rule nor the Alphabetical to NestedAlphabetical
\* promotion is rejected.
C4_ContextClassification ==
    (/\ Done(call, "determineListType")
     /\ call.context # Null
     /\ determineIntrinsicListType(settings, call.marker) # call.context.type) =>
        LET sameLengthDecodable ==
                /\ Len(call.marker) = Len(call.context.marker)
                /\ DecodableUnder(settings, call.context.type, call.marker)
            promotion ==
                /\ call.context.type = Alphabetical
                /\ determineIntrinsicListType(settings, call.marker) = NestedAlphabetical
        IN  /\ sameLengthDecodable => call.result = call.context.type
            /\ (~sameLengthDecodable /\ ~promotion) => call.result = "null"

\* C5: rendering a parsed line with getLineText and parsing the text again with
\* the same context yields a line equal to the original in type, indentation,
\* marker, separator and content.
C5_RenderParseRoundTrip ==
    (Done(call, "parseLine") /\ "original" \in DOMAIN call) =>
        call.result = call.original

\* ------------------------------------------------------------------------
\* SpecParser: the list parser on drawn documents. A document is parsed whole
\* (parseLines), over a line range (parseLists) or around a line
\* (findListForLine); a list of parseLines is handed to the reading-mode
\* list builder.
\* ------------------------------------------------------------------------

MaxLines == 3

DocLines ==
    { <<"a", ".", " ", "x">>,
      <<"b", ".", " ", "x">>,
      <<"\t", "a", ".", " ", "x">>,
      <<"\t", "\t", "a", ".", " ", "x">>,
      <<"\t", "*", " ", "x">>,
      <<"1", ".", " ", "x">>,
      <<"i", ".", " ", "x">>,
      <<"x">> }

Docs == UNION { [1..n -> DocLines] : n \in 1..MaxLines }

ParserSettings ==
    { DEFAULT_SETTINGS, [DEFAULT_SETTINGS EXCEPT !.enableAlphabeticalLists = FALSE] }

ParserCalls(d) ==
    { [op |-> "parseLines", done |-> FALSE] }
    \cup
    { [op |-> "parseLists", start |-> s, end |-> e, done |-> FALSE] :
        s \in 1..Len(d), e \in 1..Len(d) }
    \cup
    { [op |-> "findListForLine", targetLine |-> t, done |-> FALSE] : t \in 1..Len(d) }

InitParser ==
    /\ settings \in ParserSettings
    /\ doc \in Docs
    /\ call \in ParserCalls(doc)

ParseLines ==
    /\ call.op = "parseLines" /\ Pending(call)
    /\ Return(parseLines(settings, doc))
    /\ UNCHANGED <<settings, doc>>

ParseLists ==
    /\ call.op = "parseLists" /\ Pending(call)
    /\ Return(parseLists(settings, doc, call.start, call.end))
    /\ UNCHANGED <<settings, doc>>

FindListForLine ==
    /\ call.op = "findListForLine" /\ Pending(call)
    /\ Return(findListForLine(settings, doc, call.targetLine))
    /\ UNCHANGED <<settings, doc>>

\* the lines of a parsed list without their line numbers
linesOf(parsedList) == [i \in DOMAIN parsedList |-> parsedList[i][2]]

\* the post processor builds the nested list of each list parseLines returned
CreateNestedListStructure ==
    /\ Done(call, "parseLines")
    /\ \E k \in DOMAIN call.result :
          call' = [op |-> "createNestedListStructure",
                   listLines |-> linesOf(call.result[k]),
                   done |-> TRUE,
                   result |-> createNestedListStructure(linesOf(call.result[k]))]
    /\ UNCHANGED <<settings, doc>>

NextParser ==
    \/ ParseLines
    \/ ParseLists
    \/ FindListForLine
    \/ CreateNestedListStructure

SpecParser == InitParser /\ [][NextParser]_vars

\* ------------------------------------------------------------------------
\* Properties of the list parser (SpecParser)
\* ------------------------------------------------------------------------

\* the lists a finished parser call returned
ReturnedLists ==
    IF Done(call, "parseLines") \/ Done(call, "parseLists") THEN call.result
    ELSE IF Done(call, "findListForLine") /\ call.result # <<>> THEN <<call.result>>
    ELSE <<>>

LineNumbers(parsedList) == { parsedList[i][1] : i \in DOMAIN parsedList }
LevelOf(parsedList, i) == getIndentationLevel(parsedList[i][2].indentation)

\* C1: the lists returned by parseLists and parseLines are pairwise
\* line-disjoint, appear in increasing line order, and inside each list the line
\* numbers increase by exactly 1 from one entry to the next.
C1_ListsDisjointContiguous ==
    (Done(call, "parseLines") \/ Done(call, "parseLists")) =>
        LET lists == call.result
        IN  /\ \A i, j \in DOMAIN lists :
                  i # j => LineNumbers(lists[i]) \cap LineNumbers(lists[j]) = {}
            /\ \A i, j \in DOMAIN lists :
                  i < j => \A m \in LineNumbers(lists[i]), n \in LineNumbers(lists[j]) : m < n
            /\ \A i \in DOMAIN lists :
                  /\ lists[i] # <<>>
                  /\ \A k \in 1..(Len(lists[i]) - 1) :
                        lists[i][k + 1][1] = lists[i][k][1] + 1

C1_Witness ==
    /\ Done(call, "parseLines")
    /\ Len(call.result) = 2
    /\ Len(call.result[1]) >= 2

\* C2: in every list the parser returns the first line is at indentation level 0
\* and every later line is at most one level deeper than the line before it; a
\* lone tab-indented marker line starts no list, and the list builder never
\* raises its indentation-jump error on a list of the parser.
C2_LevelsStepByOne ==
    /\ \A i \in DOMAIN ReturnedLists :
          /\ LevelOf(ReturnedLists[i], 1) = 0
          /\ \A k \in 2..Len(ReturnedLists[i]) :
                LevelOf(ReturnedLists[i], k) <= LevelOf(ReturnedLists[i], k - 1) + 1
    /\ (Done(call, "parseLines") /\ Len(doc) = 1 /\ lineIndentationLevel(doc[1]) > 0)
          => call.result = <<>>
    /\ Done(call, "createNestedListStructure") => call.result.ok

C2_Witness ==
    /\ Done(call, "createNestedListStructure")
    /\ Len(call.listLines) = 3
    /\ getIndentationLevel(call.listLines[3].indentation) = 2
    /\ Len(doc) = 3
    /\ call.result.ok

\* ------------------------------------------------------------------------
\* SpecParserMixed: the list parser on documents that mix custom markers with
\* the forms the host renders itself (bullets and plain numbers).
\* ------------------------------------------------------------------------

MixedLines ==
    { <<"(", "1", ")", " ", "a">>,
      <<"2", ".", " ", "b">>,
      <<"*", " ", "x">>,
      <<"\t", "*", " ", "x">>,
      <<"\t", "-", " ", "x">>,
      <<"a", ".", " ", "x">>,
      <<"i", ".", " ", "x">>,
      <<"i", "i", ".", " ", "x">>,
      <<"x">> }

MixedDocs == UNION { [1..n -> MixedLines] : n \in 1..MaxLines }

InitParserMixed ==
    /\ settings = DEFAULT_SETTINGS
    /\ doc \in MixedDocs
    /\ call \in ParserCalls(doc)

SpecParserMixed == InitParserMixed /\ [][NextParser]_vars

\* ------------------------------------------------------------------------
\* Properties of the list parser on mixed documents (SpecParserMixed)
\* ------------------------------------------------------------------------

\* the returned lists that hold line n
ListsWithLine(lists, n) == { i \in DOMAIN lists : n \in LineNumbers(lists[i]) }

\* the parsed line of line number n in a list that holds it
ParsedAt(parsedList, n) ==
    parsedList[CHOOSE k \in DOMAIN parsedList : parsedList[k][1] = n][2]

BulletGlyphs == {"*", "-", "+"}
IsTopLevelBullet(t) == Len(t) >= 2 /\ t[1] \in BulletGlyphs /\ t[2] = " "
IsNestedBullet(t) == Len(t) >= 3 /\ t[1] = "\t" /\ t[2] \in BulletGlyphs /\ t[3] = " "

\* C16: a bullet line nested one level under an ordered custom parent is parsed
\* as Unordered with the glyph as its marker, and a bullet line at top level is
\* in no parsed list.
C16_BulletsOnlyNested ==
    Done(call, "parseLines") =>
        /\ \A n \in 2..Len(doc) : \A i \in ListsWithLine(call.result, n - 1) :
              (/\ IsNestedBullet(doc[n])
               /\ getIndentationLevel(ParsedAt(call.result[i], n - 1).indentation) = 0)
              => /\ n \in LineNumbers(call.result[i])
                 /\ ParsedAt(call.result[i], n).type = Unordered
                 /\ ParsedAt(call.result[i], n).marker = <<doc[n][2]>>
        /\ \A n \in DOMAIN doc :
              IsTopLevelBullet(doc[n]) => ListsWithLine(call.result, n) = {}

C16_Witness ==
    /\ Done(call, "parseLines")
    /\ doc = << <<"a", ".", " ", "x">>, <<"\t", "-", " ", "x">>, <<"*", " ", "x">> >>
    /\ Len(call.result) = 1
    /\ Len(call.result[1]) = 2
    /\ call.result[1][2][2].type = Unordered

\* a level-0 line of one digit with the dot or the single-parenthesis separator
IsTopLevelPlainNumber(t) ==
    Len(t) >= 3 /\ IsDigit(t[1]) /\ t[2] \in {".", ")"} /\ t[3] = " "

\* line n follows, in list i, a level-0 line of the given type
FollowsSibling(lists, i, n, type) ==
    /\ n - 1 \in LineNumbers(lists[i])
    /\ getIndentationLevel(ParsedAt(lists[i], n - 1).indentation) = 0
    /\ ParsedAt(lists[i], n - 1).type = type

\* C17: a level-0 Unordered line, or a level-0 Numbered line whose separator is
\* not the double parenthesis, is in no list when it has no sibling context, and
\* is accepted into the list of the level-0 sibling it follows (2. b after (1) a).
C17_TopLevelPlainForms ==
    Done(call, "parseLines") =>
        \A n \in DOMAIN doc :
            LET type == IF IsTopLevelBullet(doc[n]) THEN Unordered ELSE Numbered
                siblingLists == { i \in DOMAIN call.result :
                                    FollowsSibling(call.result, i, n, type) }
            IN  (IsTopLevelBullet(doc[n]) \/ IsTopLevelPlainNumber(doc[n])) =>
                    /\ siblingLists = {} => ListsWithLine(call.result, n) = {}
                    /\ \A i \in siblingLists : n \in LineNumbers(call.result[i])

\* a line can be put in front of a list when a parse started at that line
\* yields a list that holds it together with all the lines of the list
CanPrepend(st, d, parsedList, end) ==
    LET first == parsedList[1][1]
        earlier == parseList(st, d, first - 1, end)
    IN  /\ first > 1
        /\ {first - 1} \cup LineNumbers(parsedList) \subseteq LineNumbers(earlier)

\* a line can be appended to a list when the parse of the list accepts it too
CanAppend(st, d, parsedList, end) ==
    LET last == parsedList[Len(parsedList)][1]
    IN  /\ last < end
        /\ last + 1 \in LineNumbers(parseList(st, d, parsedList[1][1], last + 1))

\* C20 (as claimed): every list the parser returns is maximal: the line right after its last
\* line, inside the scanned range, cannot be appended to it, and the line right
\* before its first line cannot be prepended to it, that is, a parse started one
\* line earlier yields no list that holds that line together with the list's lines.
C20_ListsMaximal ==
    Done(call, "parseLines") =>
        \A i \in DOMAIN call.result :
            /\ ~CanAppend(settings, doc, call.result[i], Len(doc))
            /\ ~CanPrepend(settings, doc, call.result[i], Len(doc))

\* the scanned range of a finished parseLines or parseLists call
ScanStart == IF call.op = "parseLists" THEN call.start ELSE 1
ScanEnd == IF call.op = "parseLists" THEN call.end ELSE Len(doc)

\* C20 (amended): every list the parser returns is maximal for the scan that
\* found it: the line right after its last line, inside the scanned range,
\* cannot be appended to it, and the line right before its first line, inside
\* the scanned range, is the last line of the list returned just before it or
\* starts no list itself.
C20_ListsMaximalInScan ==
    (Done(call, "parseLines") \/ Done(call, "parseLists")) =>
        \A i \in DOMAIN call.result :
            LET first == call.result[i][1][1]
            IN  /\ ~CanAppend(settings, doc, call.result[i], ScanEnd)
                /\ first > ScanStart =>
                      \/ /\ i > 1
                         /\ call.result[i - 1][Len(call.result[i - 1])][1] = first - 1
                      \/ /\ ListsWithLine(call.result, first - 1) = {}
                         /\ parseList(settings, doc, first - 1, ScanEnd) = <<>>

C20_Witness ==
    /\ Done(call, "parseLines")
    /\ doc = << <<"a", ".", " ", "x">>, <<"i", ".", " ", "x">>, <<"i", "i", ".", " ", "x">> >>
    /\ Len(call.result) = 2
    /\ CanPrepend(settings, doc, call.result[2], Len(doc))

\* C29: findListForLine returns exactly the list that holds the target line in a
\* parse of the whole document, and the empty list when no list of that parse
\* holds it: the backward scan for a start line does not change the list a line
\* belongs to.
C29_FindListForLineIsWholeParse ==
    Done(call, "findListForLine") =>
        LET whole == parseLines(settings, doc)
        IN IF ListsWithLine(whole, call.targetLine) = {}
           THEN call.result = <<>>
           ELSE \A i \in ListsWithLine(whole, call.targetLine) : call.result = whole[i]

C29_Witness ==
    /\ Done(call, "findListForLine")
    /\ call.targetLine = 3
    /\ findPotentialListStart(settings, doc, 3, 3) = 2
    /\ LineNumbers(call.result) = {2, 3}
    /\ call.result \in Range(parseLines(settings, doc))

\* ------------------------------------------------------------------------
\* types.ts: the marker operations of ParsedListLine the key handlers call
\* ------------------------------------------------------------------------

\* ParsedListLine.clone(): a copy of the line
clone(line) == line

\* ParsedListLine.correctNextMarker(context, settings): the line with the marker
\* that succeeds the context's marker, in the line's own system, and with the
\* context's separator; Err when it throws (the context has no value, or the
\* value cannot be encoded: the alphabet is exhausted and nesting is disabled)
correctNextMarker(line, context, st) ==
    LET next(value) ==
            CASE line.type = Roman -> generateRomanMarker(value)
              [] line.type \in {Alphabetical, NestedAlphabetical} ->
                    IF value > 26 /\ st.nestedAlphabeticalMode = "disabled" THEN Err
                    ELSE generateAlphabeticalMarker(value, st.nestedAlphabeticalMode)
              [] line.type = Numbered -> Ok(NumToString(value))
              [] OTHER -> Err
        corrected(marker) ==
            IF ~marker.ok THEN Err
            ELSE Ok([line EXCEPT !.marker = applyCaseStyle(context.marker, marker.v),
                                 !.separator = context.separator])
        from(value) == IF ~IsNum(value) THEN Err ELSE corrected(next(value.v + 1))
    IN from(getValue(context.type, context.marker, st.nestedAlphabeticalMode = "repeated"))

\* the first-marker table of the Jura ordering: <<marker, separator, returns>>,
\* <<>> when no row applies
juraFirstMarker(line) ==
    LET caseStyle == getCaseStyle(line.marker)
    IN CASE line.type = Alphabetical /\ caseStyle = "upper" /\ line.separator = Dot ->
                << <<"I">>, Dot, TRUE >>
         [] line.type = Alphabetical /\ caseStyle = "lower" /\ line.separator = Parenthesis ->
                << <<"a", "a">>, Parenthesis, TRUE >>
         [] line.type = Alphabetical /\ caseStyle = "lower" /\ line.separator = Parentheses ->
                << <<"a", "a">>, Parentheses, TRUE >>
         [] line.type = Roman /\ caseStyle = "upper" /\ line.separator = Dot ->
                << <<"1">>, Dot, TRUE >>
         [] line.type = Numbered /\ line.separator = Dot ->
                << <<"a">>, Parenthesis, TRUE >>
         [] line.type = Numbered /\ line.separator = Parentheses ->
                << <<"a">>, Parentheses, FALSE >>
         [] line.type = NestedAlphabetical /\ caseStyle = "lower"
                /\ line.separator = Parenthesis ->
                << <<"1">>, Parentheses, TRUE >>
         [] line.type = NestedAlphabetical /\ caseStyle = "lower"
                /\ line.separator = Parentheses ->
                << <<"i">>, Parentheses, TRUE >>
         [] OTHER -> <<>>

\* variant with a seeded fault: the first marker is always lower-case
plainFirstMarker_lowerCase(line) ==
    CASE line.type = Alphabetical -> [line EXCEPT !.marker = <<"a">>]
      [] line.type = Roman -> [line EXCEPT !.marker = <<"i">>]
      [] line.type = NestedAlphabetical -> [line EXCEPT !.marker = <<"a", "a">>]
      [] line.type = Numbered -> [line EXCEPT !.marker = <<"1">>]
      [] OTHER -> line

\* the first marker of the line's type, in the case of the line's marker
plainFirstMarker(line) ==
    CASE line.type = Alphabetical ->
            [line EXCEPT !.marker = applyCaseStyle(line.marker, <<"a">>)]
      [] line.type = Roman ->
            [line EXCEPT !.marker = applyCaseStyle(line.marker, <<"i">>)]
      [] line.type = NestedAlphabetical ->
            [line EXCEPT !.marker = applyCaseStyle(line.marker, <<"a", "a">>)]
      [] line.type = Numbered -> [line EXCEPT !.marker = <<"1">>]
      [] OTHER -> line

\* ParsedListLine.asFirstMarker(enableJuraOrdering)
asFirstMarker(line, enableJuraOrdering) ==
    LET withRow(row) ==
            IF row = <<>> THEN line
            ELSE [line EXCEPT !.marker = row[1], !.separator = row[2]]
        jura(row) ==
            IF row # <<>> /\ row[3] THEN withRow(row)
            ELSE IF line.indentation = <<>>
                 THEN [line EXCEPT !.marker = <<"A">>, !.separator = Dot]
                 ELSE plainFirstMarker(withRow(row))
    IN IF enableJuraOrdering THEN jura(juraFirstMarker(line)) ELSE plainFirstMarker(line)

\* ------------------------------------------------------------------------
\* editor/key-handler.ts: KeyHandler
\* ------------------------------------------------------------------------

\* parsedList.find(([lineNumber]) => lineNumber === n)?.[1]
entryOf(parsedList, n) ==
    IF \E k \in DOMAIN parsedList : parsedList[k][1] = n
    THEN parsedList[CHOOSE k \in DOMAIN parsedList : parsedList[k][1] = n][2]
    ELSE Null

\* the list after the line object of line n was mutated to line
withEntry(parsedList, n, line) ==
    [k \in DOMAIN parsedList |->
        IF parsedList[k][1] = n THEN <<n, line>> ELSE parsedList[k]]

RECURSIVE contextFrom(_, _, _, _)
contextFrom(parsedList, i, targetLineNumber, targetIndentationLevel) ==
    LET at(currentIndentationLevel) ==
            IF currentIndentationLevel = targetIndentationLevel THEN parsedList[i][2]
            ELSE IF currentIndentationLevel < targetIndentationLevel THEN Null
            ELSE contextFrom(parsedList, i - 1, targetLineNumber, targetIndentationLevel)
    IN IF i < 1 THEN Null
       ELSE IF parsedList[i][1] >= targetLineNumber
            THEN contextFrom(parsedList, i - 1, targetLineNumber, targetIndentationLevel)
            ELSE at(getIndentationLevel(parsedList[i][2].indentation))

findContextInList(parsedList, targetLineNumber, targetIndentationLevel) ==
    contextFrom(parsedList, Len(parsedList), targetLineNumber, targetIndentationLevel)

RECURSIVE parentFrom(_, _, _, _)
parentFrom(parsedList, i, targetLineNumber, parentIndentationLevel) ==
    IF i < 1 THEN Null
    ELSE IF parsedList[i][1] >= targetLineNumber
         THEN parentFrom(parsedList, i - 1, targetLineNumber, parentIndentationLevel)
    ELSE IF getIndentationLevel(parsedList[i][2].indentation) = parentIndentationLevel
         THEN parsedList[i][2]
    ELSE parentFrom(parsedList, i - 1, targetLineNumber, parentIndentationLevel)

findParentInList(parsedList, targetLineNumber, targetIndentationLevel) ==
    IF targetIndentationLevel - 1 < 0 THEN Null
    ELSE parentFrom(parsedList, Len(parsedList), targetLineNumber,
                    targetIndentationLevel - 1)

\* the list after the line that follows the modified line was fixed
fixFollowingLineAfterIndentDecrease(st, parsedList, modifiedLineNumber, parentLine) ==
    LET fix(nextLine) ==
            IF nextLine = Null THEN parsedList
            ELSE IF getIndentationLevel(nextLine.indentation)
                      = getIndentationLevel(parentLine.indentation) + 1
                 THEN withEntry(parsedList, modifiedLineNumber + 1,
                                asFirstMarker([nextLine EXCEPT !.separator = parentLine.separator],
                                              st.enableJuraOrdering))
                 ELSE parsedList
    IN fix(entryOf(parsedList, modifiedLineNumber + 1))

\* variant with a seeded fault: a line with neither context nor parent becomes
\* a first marker instead of failing
updateMarkerFromContext_firstMarkerWithoutParent(st, parsedList, lineNumber, current) ==
    LET update(context) ==
            IF context # Null THEN correctNextMarker(current, context, st)
            ELSE Ok(asFirstMarker(current, st.enableJuraOrdering))
    IN update(findContextInList(parsedList, lineNumber,
                                getIndentationLevel(current.indentation)))

\* Ok(the line with its new marker), Err when it throws
updateMarkerFromContext(st, parsedList, lineNumber, current) ==
    LET update(context, parent) ==
            IF context # Null THEN correctNextMarker(current, context, st)
            ELSE IF parent # Null
                 THEN Ok(asFirstMarker([current EXCEPT !.separator = parent.separator],
                                       st.enableJuraOrdering))
                 ELSE Err
        at(targetIndentationLevel) ==
            update(findContextInList(parsedList, lineNumber, targetIndentationLevel),
                   findParentInList(parsedList, lineNumber, targetIndentationLevel))
    IN at(getIndentationLevel(current.indentation))

\* a change of the transaction: the text of a line is replaced, or a line break
\* and a text are inserted at a column of a line
Replace(lineNumber, text) == [kind |-> "replace", line |-> lineNumber, col |-> 0, text |-> text]
Insert(lineNumber, col, text) == [kind |-> "insert", line |-> lineNumber, col |-> col, text |-> text]

\* contextStack[indentationLevel] = line, on an array that may get holes
stackWith(contextStack, indentationLevel, line) ==
    IF indentationLevel < Len(contextStack)
    THEN [contextStack EXCEPT ![indentationLevel + 1] = line]
    ELSE contextStack \o Repeat(Null, indentationLevel - Len(contextStack)) \o <<line>>

\* variant with a seeded fault: a corrected line enters the context stack with the
\* marker it had before its correction
RECURSIVE reorderFrom_staleContext(_, _, _, _, _, _, _, _, _)
reorderFrom_staleContext(st, d, parsedList, k, modifiedLineNumber, modifiedLine, contextStack, changes, caught) ==
    LET after(originalLineNumber) == originalLineNumber > modifiedLineNumber
        done(originalLineNumber, indentationLevel, stack, line, newCaught) ==
            reorderFrom_staleContext(st, d,
                        IF after(originalLineNumber)
                        THEN withEntry(parsedList, originalLineNumber, line) ELSE parsedList,
                        k + 1, modifiedLineNumber, modifiedLine,
                        stackWith(stack, indentationLevel,
                                  IF after(originalLineNumber) THEN parsedList[k][2] ELSE line),
                        IF /\ after(originalLineNumber)
                           /\ originalLineNumber <= Len(d)
                           /\ d[originalLineNumber] # getLineText(line)
                        THEN Append(changes, Replace(originalLineNumber, getLineText(line)))
                        ELSE changes,
                        newCaught)
        corrected(originalLineNumber, indentationLevel, stack, lineToProcess, next) ==
            IF next.ok
            THEN done(originalLineNumber, indentationLevel, stack, next.v, caught)
            ELSE done(originalLineNumber, indentationLevel, stack, lineToProcess, caught + 1)
        withContext(originalLineNumber, indentationLevel, stack, lineToProcess, context) ==
            IF after(originalLineNumber) /\ context # Null
            THEN corrected(originalLineNumber, indentationLevel, stack, lineToProcess,
                           correctNextMarker(lineToProcess, context, st))
            ELSE done(originalLineNumber, indentationLevel, stack, lineToProcess, caught)
        withStack(originalLineNumber, indentationLevel, stack, lineToProcess) ==
            withContext(originalLineNumber, indentationLevel, stack, lineToProcess,
                        IF indentationLevel < Len(stack) THEN stack[indentationLevel + 1]
                        ELSE Null)
        atLevel(originalLineNumber, indentationLevel, lineToProcess) ==
            withStack(originalLineNumber, indentationLevel,
                      IF Len(contextStack) - 1 > indentationLevel
                      THEN Take(contextStack, indentationLevel + 1) ELSE contextStack,
                      lineToProcess)
        process(originalLineNumber, lineToProcess) ==
            atLevel(originalLineNumber, getIndentationLevel(lineToProcess.indentation),
                    lineToProcess)
    IN IF k > Len(parsedList)
       THEN [changes |-> changes, parsedList |-> parsedList, caught |-> caught]
       ELSE process(parsedList[k][1],
                    IF parsedList[k][1] = modifiedLineNumber THEN modifiedLine
                    ELSE parsedList[k][2])

\* the loop of collectReorderChanges from entry k on: the changes, the list with
\* its line objects as the loop leaves them, and the number of successor errors
\* the loop caught
RECURSIVE reorderFrom(_, _, _, _, _, _, _, _, _)
reorderFrom(st, d, parsedList, k, modifiedLineNumber, modifiedLine, contextStack, changes, caught) ==
    LET after(originalLineNumber) == originalLineNumber > modifiedLineNumber
        done(originalLineNumber, indentationLevel, stack, line, newCaught) ==
            reorderFrom(st, d,
                        IF after(originalLineNumber)
                        THEN withEntry(parsedList, originalLineNumber, line) ELSE parsedList,
                        k + 1, modifiedLineNumber, modifiedLine,
                        stackWith(stack, indentationLevel, line),
                        IF /\ after(originalLineNumber)
                           /\ originalLineNumber <= Len(d)
                           /\ d[originalLineNumber] # getLineText(line)
                        THEN Append(changes, Replace(originalLineNumber, getLineText(line)))
                        ELSE changes,
                        newCaught)
        corrected(originalLineNumber, indentationLevel, stack, lineToProcess, next) ==
            IF next.ok
            THEN done(originalLineNumber, indentationLevel, stack, next.v, caught)
            ELSE done(originalLineNumber, indentationLevel, stack, lineToProcess, caught + 1)
        withContext(originalLineNumber, indentationLevel, stack, lineToProcess, context) ==
            IF after(originalLineNumber) /\ context # Null
            THEN corrected(originalLineNumber, indentationLevel, stack, lineToProcess,
                           correctNextMarker(lineToProcess, context, st))
            ELSE done(originalLineNumber, indentationLevel, stack, lineToProcess, caught)
        withStack(originalLineNumber, indentationLevel, stack, lineToProcess) ==
            withContext(originalLineNumber, indentationLevel, stack, lineToProcess,
                        IF indentationLevel < Len(stack) THEN stack[indentationLevel + 1]
                        ELSE Null)
        atLevel(originalLineNumber, indentationLevel, lineToProcess) ==
            withStack(originalLineNumber, indentationLevel,
                      IF Len(contextStack) - 1 > indentationLevel
                      THEN Take(contextStack, indentationLevel + 1) ELSE contextStack,
                      lineToProcess)
        process(originalLineNumber, lineToProcess) ==
            atLevel(originalLineNumber, getIndentationLevel(lineToProcess.indentation),
                    lineToProcess)
    IN IF k > Len(parsedList)
       THEN [changes |-> changes, parsedList |-> parsedList, caught |-> caught]
       ELSE process(parsedList[k][1],
                    IF parsedList[k][1] = modifiedLineNumber THEN modifiedLine
                    ELSE parsedList[k][2])

\* variant with a seeded fault: the walk corrects and rewrites from the first line
\* of the list on, not from the line after the modified line
collectReorderChanges_fromListStart(st, d, changes, parsedList, modifiedLineNumber, modifiedLine) ==
    reorderFrom(st, d, withEntry(parsedList, modifiedLineNumber, modifiedLine), 1, 0,
                modifiedLine, <<>>, changes, 0)

collectReorderChanges(st, d, changes, parsedList, modifiedLineNumber, modifiedLine) ==
    reorderFrom(st, d, parsedList, 1, modifiedLineNumber, modifiedLine, <<>>, changes, 0)

\* what a key handler did: the value it returned, the changes it dispatched, the
\* line objects of the list in document order as it left them, the position in
\* them of the edited or inserted line (0 when nothing was resequenced), and the
\* number of successor errors the forward walk caught
Handled(returned, changes, lines, edited, caught) ==
    [returned |-> returned, changes |-> changes, lines |-> lines, edited |-> edited,
     caught |-> caught]

NotHandled == Handled(FALSE, <<>>, <<>>, 0, 0)

positionOf(parsedList, n) == CHOOSE k \in DOMAIN parsedList : parsedList[k][1] = n

updateLineAndReorder(st, d, lineNumber, updatedCurrentLine, parsedList) ==
    LET applied(r) ==
            Handled(TRUE, r.changes, [k \in DOMAIN r.parsedList |-> r.parsedList[k][2]],
                    positionOf(parsedList, lineNumber), r.caught)
    IN applied(collectReorderChanges(st, d,
                                     <<Replace(lineNumber, getLineText(updatedCurrentLine))>>,
                                     parsedList, lineNumber, updatedCurrentLine))

insertLineAndReorder(st, d, lineNumber, col, newLine, parsedList) ==
    LET position == positionOf(parsedList, lineNumber)
        applied(r) ==
            Handled(TRUE, r.changes,
                    [k \in 1..Len(parsedList) + 1 |->
                        IF k <= position THEN r.parsedList[k][2]
                        ELSE IF k = position + 1 THEN newLine
                        ELSE r.parsedList[k - 1][2]],
                    position + 1, r.caught)
    IN applied(collectReorderChanges(st, d,
                                     <<Insert(lineNumber, col, getLineText(newLine))>>,
                                     parsedList, lineNumber, newLine))

\* the shift branch of tabKey and the empty-content branch of enterKey up to the
\* end of the try block: Ok(<<list, current>>), Err when a call throws
decreaseAndFix(st, parsedList, lineNumber, current) ==
    LET fixed(updated) ==
            IF ~updated.ok THEN Err
            ELSE Ok(<<fixFollowingLineAfterIndentDecrease(
                         st, withEntry(parsedList, lineNumber, updated.v), lineNumber,
                         updated.v),
                      updated.v>>)
        decreased(indentation) ==
            IF ~indentation.ok THEN Err
            ELSE fixed(updateMarkerFromContext(st, parsedList, lineNumber,
                                               [current EXCEPT !.indentation = indentation.v]))
    IN decreased(decreaseIndentationLevel(current.indentation))

tabKey(st, d, lineNumber, singleCursor, shift) ==
    LET parsedList == findListForLine(st, d, lineNumber)
        reorder(r) ==
            IF ~r.ok THEN NotHandled
            ELSE updateLineAndReorder(st, d, lineNumber, r.v[2], r.v[1])
        increased(list, updated) ==
            IF ~updated.ok THEN Err
            ELSE Ok(<<withEntry(list, lineNumber, updated.v), updated.v>>)
        handle(list, current) ==
            IF current = Null THEN NotHandled
            ELSE IF shift THEN reorder(decreaseAndFix(st, list, lineNumber, current))
            ELSE reorder(increased(list,
                     updateMarkerFromContext(st, list, lineNumber,
                         [current EXCEPT
                             !.indentation = increaseIndentationLevel(current.indentation)])))
        found(list) == handle(list, entryOf(list, lineNumber))
    IN IF ~singleCursor THEN NotHandled ELSE found(parsedList)

IsBlank(content) == \A i \in DOMAIN content : content[i] \in {" ", "\t"}

enterKey(st, d, lineNumber, singleCursor, col) ==
    LET parsedList == findListForLine(st, d, lineNumber)
        inserted(list, newLine) ==
            IF ~newLine.ok THEN NotHandled
            ELSE insertLineAndReorder(st, d, lineNumber, col,
                                      [newLine.v EXCEPT !.content = <<>>], list)
        emptied(r) ==
            IF ~r.ok
            THEN Handled(TRUE, <<Replace(lineNumber, <<>>)>>, <<>>, 0, 0)
            ELSE updateLineAndReorder(st, d, lineNumber,
                                      [r.v[2] EXCEPT !.content = <<>>],
                                      withEntry(r.v[1], lineNumber,
                                                [r.v[2] EXCEPT !.content = <<>>]))
        handle(list, current) ==
            IF current = Null THEN NotHandled
            ELSE IF /\ current.type = Alphabetical
                    /\ getValue(current.type, current.marker,
                                st.nestedAlphabeticalMode = "repeated") = Ok(26)
                    /\ st.nestedAlphabeticalMode = "disabled"
                 THEN NotHandled
            ELSE IF col < Len(getLineText(current)) - Len(current.content)
                 THEN NotHandled
            ELSE IF ~IsBlank(current.content)
                 THEN inserted(list, correctNextMarker(clone(current), current, st))
            ELSE emptied(decreaseAndFix(st, list, lineNumber, current))
        found(list) == handle(list, entryOf(list, lineNumber))
    IN IF ~singleCursor THEN NotHandled ELSE found(parsedList)

\* the document after view.dispatch of the changes; applyChanges dispatches
\* nothing when there is no change
RECURSIVE changedFrom(_, _, _)
changedFrom(d, changes, n) ==
    LET inserts == { i \in DOMAIN changes :
                       changes[i].kind = "insert" /\ changes[i].line = n }
        replaces == { i \in DOMAIN changes :
                        changes[i].kind = "replace" /\ changes[i].line = n }
        one(set) == changes[CHOOSE i \in set : TRUE]
        here == IF inserts # {}
                THEN << Take(d[n], one(inserts).col),
                        one(inserts).text \o Drop(d[n], one(inserts).col) >>
                ELSE IF replaces # {} THEN << one(replaces).text >>
                ELSE << d[n] >>
    IN IF n > Len(d) THEN <<>> ELSE here \o changedFrom(d, changes, n + 1)

applyChanges(d, changes) == IF Len(changes) = 0 THEN d ELSE changedFrom(d, changes, 1)

\* ------------------------------------------------------------------------
\* SpecKeys: one Tab, Shift-Tab or Enter key press on a drawn document
\* ------------------------------------------------------------------------

KeyLines ==
    { <<"a", ".", " ", "x">>, <<"z", ".", " ", "x">>,
      <<"\t", "a", ".", " ", "x">>, <<"\t", "a", ".", " ">>, <<"x">> }

KeyDocs == UNION { [1..n -> KeyLines] : n \in 1..MaxLines }

KeySettings ==
    { DEFAULT_SETTINGS, [DEFAULT_SETTINGS EXCEPT !.nestedAlphabeticalMode = "disabled"] }

KeyCalls(d) ==
    { [op |-> "tabKey", line |-> n, singleCursor |-> single, shift |-> shift,
       done |-> FALSE] :
        n \in DOMAIN d, single \in BOOLEAN, shift \in BOOLEAN }
    \cup
    UNION { { [op |-> "enterKey", line |-> n, singleCursor |-> single, col |-> col,
               done |-> FALSE] : single \in BOOLEAN, col \in {0, Len(d[n])} } :
            n \in DOMAIN d }

InitKeys ==
    /\ settings \in KeySettings
    /\ doc \in KeyDocs
    /\ call \in KeyCalls(doc)

\* the handler ran: the document it dispatched to, and what it did, with the
\* document it started from
Handle(r) ==
    /\ doc' = applyChanges(doc, r.changes)
    /\ Return([returned |-> r.returned, changes |-> r.changes, lines |-> r.lines,
               edited |-> r.edited, caught |-> r.caught, before |-> doc])
    /\ UNCHANGED settings

TabKey ==
    /\ call.op = "tabKey" /\ Pending(call)
    /\ Handle(tabKey(settings, doc, call.line, call.singleCursor, call.shift))

EnterKey ==
    /\ call.op = "enterKey" /\ Pending(call)
    /\ Handle(enterKey(settings, doc, call.line, call.singleCursor, call.col))

NextKeys ==
    \/ TabKey
    \/ EnterKey

SpecKeys == InitKeys /\ [][NextKeys]_vars

\* ------------------------------------------------------------------------
\* Claims on the key handlers (SpecKeys)
\* ------------------------------------------------------------------------

KeyDone == Done(call, "tabKey") \/ Done(call, "enterKey")

\* the parsed list of the line the key was pressed on, before the key press
ListBefore == findListForLine(settings, call.result.before, call.line)

\* the line numbers a change of the handler wrote to
Rewritten == { call.result.changes[i].line : i \in DOMAIN call.result.changes }

\* the handler inserted a line after the line of the cursor
InsertedLine == \E i \in DOMAIN call.result.changes : call.result.changes[i].kind = "insert"

\* where line n of the document before the key press is afterwards
After(n) == IF InsertedLine /\ n > call.line THEN n + 1 ELSE n

\* line k of a sequence of line objects has a sibling context: an earlier line at
\* its level with no shallower line between the two
LevelAt(lines, k) == getIndentationLevel(lines[k].indentation)

Siblings(lines, k) ==
    { j \in 1..k - 1 :
        /\ LevelAt(lines, j) = LevelAt(lines, k)
        /\ \A i \in j + 1..k - 1 : LevelAt(lines, i) > LevelAt(lines, k) }

\* encode(decode(marker of the sibling) + 1) in the system of the line
SuccessorMarker(line, sibling) ==
    LET encode(value) ==
            CASE line.type = Roman -> generateRomanMarker(value)
              [] line.type \in {Alphabetical, NestedAlphabetical} ->
                    generateAlphabeticalMarker(value, settings.nestedAlphabeticalMode)
              [] line.type = Numbered -> Ok(NumToString(value))
              [] OTHER -> Err
        decoded(value) == IF IsNum(value) THEN encode(value.v + 1) ELSE Err
    IN decoded(getValue(sibling.type, sibling.marker,
                        settings.nestedAlphabeticalMode = "repeated"))

FollowsItsSibling(lines, k) ==
    \A j \in Siblings(lines, k) :
        /\ SuccessorMarker(lines[k], lines[j]).ok
        /\ ToLowerCase(lines[k].marker) = SuccessorMarker(lines[k], lines[j]).v
        /\ lines[k].separator = lines[j].separator

\* C12: after a successful Tab, Shift-Tab or Enter the edited or inserted line
\* and every later line of the list that has a sibling context carries the
\* successor of the sibling's marker, in its own system, and the sibling's
\* separator.
C12_SuccessorOfSibling ==
    (KeyDone /\ call.result.returned /\ call.result.edited > 0) =>
        \A k \in call.result.edited..Len(call.result.lines) :
            FollowsItsSibling(call.result.lines, k)

\* C13: a key operation rewrites no line before the edited line and no line
\* outside the parsed list of the edited line, and it rewrites a later line only
\* when the recomputed text differs from the line's text.
C13_RewritesOnlyWhatChanged ==
    KeyDone =>
        /\ \A n \in Rewritten : n >= call.line /\ n \in LineNumbers(ListBefore)
        /\ \A i \in DOMAIN call.result.changes :
              call.result.changes[i].line > call.line =>
                  call.result.changes[i].text # call.result.before[call.result.changes[i].line]
        /\ \A n \in DOMAIN call.result.before :
              (n < call.line \/ n \notin LineNumbers(ListBefore)) =>
                  doc[After(n)] = call.result.before[n]

C13_Witness ==
    /\ Done(call, "tabKey")
    /\ call.result.returned
    /\ call.line = 2
    /\ Rewritten = {2, 3}
    /\ doc[1] = call.result.before[1]
    /\ doc[3] # call.result.before[3]

\* C14: resequencing is all-or-nothing: when the successor of a line of the
\* forward walk cannot be computed, no rewrite is applied and the document is
\* left as it was.
C14_AllOrNothing ==
    (KeyDone /\ call.result.caught > 0) =>
        /\ call.result.changes = <<>>
        /\ doc = call.result.before

\* the line a Tab was pressed on has, one level deeper, neither a sibling
\* context nor a parent in its list
TabWithoutSiblingOrParent ==
    /\ Done(call, "tabKey")
    /\ call.singleCursor /\ ~call.shift
    /\ call.line \in LineNumbers(ListBefore)
    /\ LET level == getIndentationLevel(ParsedAt(ListBefore, call.line).indentation)
           earlier == { k \in DOMAIN ListBefore : ListBefore[k][1] < call.line }
       IN /\ \A k \in earlier : LevelOf(ListBefore, k) # level
          /\ \A j \in earlier :
                LevelOf(ListBefore, j) = level + 1 =>
                    \E i \in earlier : i > j /\ LevelOf(ListBefore, i) <= level

OneEnabledCase(m) ==
    /\ AllLetters(m)
    /\ \/ m = ToLowerCase(m) /\ hasLowercase(settings)
       \/ m = ToUpperCase(m) /\ hasUppercase(settings)

\* C26: the marker of a parsed line is all digits, a single bullet glyph, or a run
\* of letters entirely in one enabled case; no parsed marker mixes upper and lower
\* case (Ab, iV).
C26_MarkerInOneCase ==
    (Done(call, "parseLine") /\ call.result # Null) =>
        \/ AllDigits(call.result.marker)
        \/ Len(call.result.marker) = 1 /\ call.result.marker[1] \in BulletGlyphs
        \/ OneEnabledCase(call.result.marker)

\* C23: with nested-alphabetical mode disabled, a marker whose sibling context is
\* the Alphabetical marker of value 26 (z), or a marker of more than one
\* character under an Alphabetical sibling context, is rejected by the
\* classifier; it is never classified as Alphabetical.
C23_ExhaustedAlphabetRejected ==
    (/\ Done(call, "determineListType")
     /\ settings.nestedAlphabeticalMode = "disabled"
     /\ call.context # Null
     /\ call.context.type = Alphabetical
     /\ \/ getValue(Alphabetical, call.context.marker, FALSE) = Ok(26)
        \/ Len(call.marker) > 1) =>
        call.result = "null"

\* ------------------------------------------------------------------------
\* SpecFirstMarker: asFirstMarker on drawn parsed lines. Turning the Jura
\* ordering on in the settings tab turns on every system, the repeated-letters
\* mode, the parentheses and both cases.
\* ------------------------------------------------------------------------

FirstMarkerSettings ==
    { DEFAULT_SETTINGS,
      [DEFAULT_SETTINGS EXCEPT !.nestedAlphabeticalMode = "repeated"],
      [DEFAULT_SETTINGS EXCEPT !.nestedAlphabeticalMode = "repeated",
                               !.enableJuraOrdering = TRUE] }

\* markers as the parser types them
TypedMarkers ==
    { <<Alphabetical, <<"a">> >>, <<Alphabetical, <<"c">> >>, <<Alphabetical, <<"Z">> >>,
      <<Roman, <<"i">> >>, <<Roman, <<"i", "v">> >>, <<Roman, <<"X">> >>,
      <<NestedAlphabetical, <<"a", "a">> >>, <<NestedAlphabetical, <<"b", "b">> >>,
      <<NestedAlphabetical, <<"C", "C">> >>,
      <<Numbered, <<"1">> >>, <<Numbered, <<"1", "2">> >>,
      <<Unordered, <<"*">> >> }

FirstMarkerCalls ==
    { [op |-> "asFirstMarker",
       line |-> ParsedListLine(tm[1], indentation, tm[2], separator, <<"x">>),
       done |-> FALSE] :
        tm \in TypedMarkers, indentation \in {<<>>, <<"\t">>}, separator \in ListSeparator }

InitFirstMarker ==
    /\ settings \in FirstMarkerSettings
    /\ doc = <<>>
    /\ call \in FirstMarkerCalls

AsFirstMarker ==
    /\ call.op = "asFirstMarker" /\ Pending(call)
    /\ Return(asFirstMarker(call.line, settings.enableJuraOrdering))
    /\ UNCHANGED <<settings, doc>>

NextFirstMarker == AsFirstMarker

SpecFirstMarker == InitFirstMarker /\ [][NextFirstMarker]_vars

\* the value of the marker asFirstMarker left, under the nested mode of the settings
FirstMarkerValue ==
    getValue(call.result.type, call.result.marker, settings.nestedAlphabeticalMode = "repeated")

\* asFirstMarker ran without the Jura ordering on a line of an ordered system
PlainFirstMarkerCall ==
    /\ Done(call, "asFirstMarker")
    /\ ~settings.enableJuraOrdering
    /\ call.line.type \in {Alphabetical, Roman, NestedAlphabetical, Numbered}

\* type, separator and letter case of the line are kept
KeepsSystemAndCase ==
    /\ call.result.type = call.line.type
    /\ call.result.separator = call.line.separator
    /\ getCaseStyle(call.result.marker) = getCaseStyle(call.line.marker)

JuraSequence ==
    << [type |-> Alphabetical, caseStyle |-> "upper", marker |-> <<"A">>, separator |-> Dot],
       [type |-> Roman, caseStyle |-> "upper", marker |-> <<"I">>, separator |-> Dot],
       [type |-> Numbered, caseStyle |-> "upper", marker |-> <<"1">>, separator |-> Dot],
       [type |-> Alphabetical, caseStyle |-> "lower", marker |-> <<"a">>,
        separator |-> Parenthesis],
       [type |-> NestedAlphabetical, caseStyle |-> "lower", marker |-> <<"a", "a">>,
        separator |-> Parenthesis],
       [type |-> Numbered, caseStyle |-> "upper", marker |-> <<"1">>,
        separator |-> Parentheses],
       [type |-> Alphabetical, caseStyle |-> "lower", marker |-> <<"a">>,
        separator |-> Parentheses],
       [type |-> NestedAlphabetical, caseStyle |-> "lower", marker |-> <<"a", "a">>,
        separator |-> Parentheses],
       [type |-> Roman, caseStyle |-> "lower", marker |-> <<"i">>,
        separator |-> Parentheses] >>

\* the line carries the type, case and separator of entry k of the sequence
StyledAs(line, k) ==
    /\ line.type = JuraSequence[k].type
    /\ getCaseStyle(line.marker) = JuraSequence[k].caseStyle
    /\ line.separator = JuraSequence[k].separator

\* C25: with the Jura ordering, asFirstMarker on a line carrying the type, case
\* and separator of entry k of the sequence leaves the marker and the separator
\* of entry k + 1, for k from 1 to 8 (a line styled (1) yields (a)).
C25_JuraSuccession ==
    (Done(call, "asFirstMarker") /\ settings.enableJuraOrdering) =>
        \A k \in 1..8 :
            StyledAs(call.line, k) =>
                /\ call.result.marker = JuraSequence[k + 1].marker
                /\ call.result.separator = JuraSequence[k + 1].separator

\* ------------------------------------------------------------------------
\* SpecKeysNested: one key press, with a single cursor, on a drawn document of
\* nested alphabetical lines under the default settings
\* ------------------------------------------------------------------------

MaxNestedLines == 4

NestedLines ==
    { <<"a", ".", " ", "x">>, <<"b", ".", " ", "x">>,
      <<"\t", "a", ".", " ", "x">>, <<"\t", "b", ".", " ", "x">>,
      <<"\t", "\t", "a", ".", " ", "x">> }

NestedDocs == UNION { [1..n -> NestedLines] : n \in 1..MaxNestedLines }

NestedKeyCalls(d) ==
    { [op |-> "tabKey", line |-> n, singleCursor |-> TRUE, shift |-> shift,
       done |-> FALSE] : n \in DOMAIN d, shift \in BOOLEAN }
    \cup
    { [op |-> "enterKey", line |-> n, singleCursor |-> TRUE, col |-> Len(d[n]),
       done |-> FALSE] : n \in DOMAIN d }

InitKeysNested ==
    /\ settings = DEFAULT_SETTINGS
    /\ doc \in NestedDocs
    /\ call \in NestedKeyCalls(doc)

SpecKeysNested == InitKeysNested /\ [][NextKeys]_vars

\* the key operation resequenced the list: the line objects it left, and the
\* position among them of the edited or inserted line
Resequenced == KeyDone /\ call.result.returned /\ call.result.edited > 0

\* the line number, after the key press, of line object k of the list
LineNumberAfter(k) == ListBefore[1][1] + k - 1

\* the forward walk run once more from the edit point, over the line objects
\* and the document the key operation left
SecondWalk ==
    collectReorderChanges(settings, doc, <<>>,
                          [k \in DOMAIN call.result.lines |->
                              <<LineNumberAfter(k), call.result.lines[k]>>],
                          LineNumberAfter(call.result.edited),
                          call.result.lines[call.result.edited])

\* the changes of the forward walk run from line n over the list that the parser
\* finds around line n in the document the key operation left
WalkOverText(n) ==
    LET walk(parsedList) ==
            IF parsedList = <<>> THEN <<>>
            ELSE collectReorderChanges(settings, doc, <<>>, parsedList, n,
                                       entryOf(parsedList, n)).changes
    IN walk(findListForLine(settings, doc, n))

ShiftTabMoved ==
    /\ Resequenced
    /\ call.op = "tabKey" /\ call.shift
    /\ LevelAt(call.result.lines, call.result.edited) + 1
          = getIndentationLevel(ListBefore[call.result.edited][2].indentation)

\* the marker of the line is the first marker of its system, in its case
IsFirstMarker(line) ==
    line.marker = asFirstMarker(line, settings.enableJuraOrdering).marker

\* line k comes after the moved line, nothing between the two is shallower than
\* level, and line k is the first such line at level
FirstBelowMoved(lines, k, level) ==
    /\ k > call.result.edited
    /\ LevelAt(lines, k) = level
    /\ \A i \in call.result.edited + 1..k - 1 : LevelAt(lines, i) > level

\* the line right after the moved line is still at the level the moved line left
NextLineStillAtOldLevel ==
    /\ ShiftTabMoved
    /\ call.result.edited < Len(call.result.lines)
    /\ LevelAt(call.result.lines, call.result.edited + 1)
          = LevelAt(call.result.lines, call.result.edited) + 1

\* C22: after Shift-Tab moved a line from level L to level L - 1, a following
\* line still at level L, the first one under the moved line, carries the first
\* marker of a new level, and the next line at level L - 1 carries the
\* successor of the moved line's marker.
C22_ShiftTabRepairsFollowing ==
    ShiftTabMoved =>
        \A k \in DOMAIN call.result.lines :
            /\ FirstBelowMoved(call.result.lines, k,
                               LevelAt(call.result.lines, call.result.edited) + 1)
                  => IsFirstMarker(call.result.lines[k])
            /\ FirstBelowMoved(call.result.lines, k,
                               LevelAt(call.result.lines, call.result.edited))
                  => FollowsItsSibling(call.result.lines, k)

\* the same with the line right after the moved line only
C22_ShiftTabRepairsNextLine ==
    ShiftTabMoved =>
        /\ NextLineStillAtOldLevel
              => IsFirstMarker(call.result.lines[call.result.edited + 1])
        /\ \A k \in DOMAIN call.result.lines :
              FirstBelowMoved(call.result.lines, k,
                              LevelAt(call.result.lines, call.result.edited))
                  => FollowsItsSibling(call.result.lines, k)

\* a / ->a / ->b / b with Shift-Tab on line 2 became a / b / ->a / c
C22_Example ==
    /\ ShiftTabMoved
    /\ call.line = 2
    /\ call.result.before = << <<"a", ".", " ", "x">>, <<"\t", "a", ".", " ", "x">>,
                               <<"\t", "b", ".", " ", "x">>, <<"b", ".", " ", "x">> >>
    /\ [k \in 1..4 |-> <<LevelAt(call.result.lines, k), call.result.lines[k].marker>>]
          = << <<0, <<"a">>>>, <<0, <<"b">>>>, <<1, <<"a">>>>, <<0, <<"c">>>> >>

\* no line of the sequence is more than one level deeper than the line before it
NestingRule(lines) ==
    \A k \in 2..Len(lines) : LevelAt(lines, k) <= LevelAt(lines, k - 1) + 1

\* the list the parser finds, in the document as it is now, around the first
\* line of the list the key was pressed in
ListAfter == findListForLine(settings, doc, ListBefore[1][1])

\* C28 (nesting rule only): after a successful Tab or Shift-Tab no line of the
\* list is more than one level deeper than the line before it.
C28_NestingRuleOfLines ==
    (Resequenced /\ call.op = "tabKey") => NestingRule(call.result.lines)

\* C28: after a successful Tab or Shift-Tab no line of the list is more than
\* one level deeper than the line before it, and the text parsed again from the
\* first line of the list is one list that holds every line of the list.
C28_NestingRulePreserved ==
    (Resequenced /\ call.op = "tabKey") =>
        /\ NestingRule(call.result.lines)
        /\ LineNumbers(ListBefore) \subseteq LineNumbers(ListAfter)

====
